---- MODULE Spec2Model ----
(***************************************************************************)
(* Route-description scoring engine of the Blind Navigator map game.       *)
(* Strings are sequences of one-character strings, so that substring       *)
(* tests, regular-expression matches, trimming and splitting are computed  *)
(* character by character as the services/scoring.ts code computes them.   *)
(***************************************************************************)
EXTENDS Integers, Sequences, FiniteSets, TLC

(***************************************************************************)
(* JavaScript values                                                       *)
(***************************************************************************)
JSNull == [type |-> "null"]
JSUndefined == [type |-> "undefined"]
JSString(s) == [type |-> "string", value |-> s]
JSNumber(n) == [type |-> "number", value |-> n]
JSArray(items) == [type |-> "array", items |-> items]

\* !v : the falsy values are null, undefined, "" and 0
Falsy(v) ==
  \/ v.type \in {"null", "undefined"}
  \/ v.type = "string" /\ Len(v.value) = 0
  \/ v.type = "number" /\ v.value = 0

(***************************************************************************)
(* String primitives                                                       *)
(***************************************************************************)
UpperLetters == <<"A","B","C","D","E","F","G","H","I","J","K","L","M","N","O","P","Q","R","S","T","U","V","W","X","Y","Z">>
LowerLetters == <<"a","b","c","d","e","f","g","h","i","j","k","l","m","n","o","p","q","r","s","t","u","v","w","x","y","z">>
Digits == {"0","1","2","3","4","5","6","7","8","9"}
Range(f) == {f[i] : i \in DOMAIN f}

UpperSet == Range(UpperLetters)
LowerOf == [c \in UpperSet |-> LowerLetters[CHOOSE i \in 1..26 : UpperLetters[i] = c]]
WordChars == UpperSet \cup Range(LowerLetters) \cup Digits \cup {"_"}
SpaceChars == {" ", "\t", "\n"}

toLowerCaseChar(c) == IF c \in UpperSet THEN LowerOf[c] ELSE c

\* String.prototype.toLowerCase
toLowerCase(s) == [i \in 1..Len(s) |-> toLowerCaseChar(s[i])]

\* \s of a regular expression, and the white space String.prototype.trim removes
isSpace(c) == c \in SpaceChars
\* \d
isDigit(c) == c \in Digits
\* \w
isWordChar(c) == c \in WordChars

\* String.prototype.trim
trim(s) ==
  IF \A i \in 1..Len(s) : isSpace(s[i]) THEN <<>>
  ELSE LET first == CHOOSE i \in 1..Len(s) : ~isSpace(s[i]) /\ \A j \in 1..(i-1) : isSpace(s[j])
           last == CHOOSE i \in 1..Len(s) : ~isSpace(s[i]) /\ \A j \in (i+1)..Len(s) : isSpace(s[j])
       IN SubSeq(s, first, last)

\* w occurs in s starting at index i
startsAt(s, w, i) ==
  /\ i + Len(w) - 1 <= Len(s)
  /\ \A j \in 1..Len(w) : s[i + j - 1] = w[j]

\* the same under the regular expression flag i
startsAtIgnoreCase(s, w, i) ==
  /\ i + Len(w) - 1 <= Len(s)
  /\ \A j \in 1..Len(w) : toLowerCaseChar(s[i + j - 1]) = toLowerCaseChar(w[j])

\* String.prototype.includes
includes(s, w) == \E i \in 1..(Len(s) - Len(w) + 1) : startsAt(s, w, i)

\* String.prototype.indexOf, 1-based; 0 when w does not occur
indexOf(s, w) ==
  IF includes(s, w)
  THEN CHOOSE i \in 1..(Len(s) - Len(w) + 1) : startsAt(s, w, i) /\ \A k \in 1..(i-1) : ~startsAt(s, w, k)
  ELSE 0

\* Array.prototype.filter on a sequence, keeping the order
RECURSIVE filterIncluded(_, _)
filterIncluded(words, route) ==
  IF words = <<>> THEN <<>>
  ELSE LET rest == filterIncluded(Tail(words), route)
       IN IF includes(route, Head(words)) THEN <<Head(words)>> \o rest ELSE rest

\* [...new Set(matches)] : the first occurrence of every element, in order
RECURSIVE uniq(_)
uniq(seq) ==
  IF seq = <<>> THEN <<>>
  ELSE LET r == uniq(SubSeq(seq, 1, Len(seq) - 1))
           l == seq[Len(seq)]
       IN IF \E i \in 1..Len(r) : r[i] = l THEN r ELSE Append(r, l)

\* index after the run of \w characters that starts at i
RECURSIVE wordRunEnd(_, _)
wordRunEnd(s, i) == IF i > Len(s) \/ ~isWordChar(s[i]) THEN i ELSE wordRunEnd(s, i + 1)
\* index after the run of \s characters that starts at i
RECURSIVE spaceRunEnd(_, _)
spaceRunEnd(s, i) == IF i > Len(s) \/ ~isSpace(s[i]) THEN i ELSE spaceRunEnd(s, i + 1)
\* index after the run of \d characters that starts at i
RECURSIVE digitRunEnd(_, _)
digitRunEnd(s, i) == IF i > Len(s) \/ ~isDigit(s[i]) THEN i ELSE digitRunEnd(s, i + 1)

\* \b between s[i-1] and s[i]
wordBoundary(s, i) ==
  (i - 1 >= 1 /\ isWordChar(s[i - 1])) # (i <= Len(s) /\ isWordChar(s[i]))

\* cleaned.split(/\s+/).length : one more than the number of white-space runs
splitWhitespaceLength(s) ==
  1 + Cardinality({i \in 1..Len(s) : isSpace(s[i]) /\ (i = 1 \/ ~isSpace(s[i - 1]))})

\* Math.max
Max(a, b) == IF a >= b THEN a ELSE b
\* Math.min
Min(a, b) == IF a <= b THEN a ELSE b

(***************************************************************************)
(* Route normalizer                                                        *)
(***************************************************************************)
directionWords == <<<<"n","o","r","t","h">>, <<"s","o","u","t","h">>, <<"e","a","s","t">>, <<"w","e","s","t">>,
                    <<"l","e","f","t">>, <<"r","i","g","h","t">>, <<"s","t","r","a","i","g","h","t">>, <<"f","o","r","w","a","r","d">>,
                    <<"t","u","r","n">>, <<"c","o","n","t","i","n","u","e">>, <<"h","e","a","d">>, <<"g","o">>>>

streetSuffixes == <<<<"b","o","u","l","e","v","a","r","d">>, <<"s","t","r","e","e","t">>, <<"a","v","e","n","u","e">>, <<"d","r","i","v","e">>, <<"l","a","n","e">>, <<"r","o","a","d">>, <<"w","a","y">>,
                    <<"b","l","v","d">>, <<"s","t">>, <<"a","v","e">>, <<"r","d">>, <<"d","r">>, <<"l","n">>>>

landmarkWords == <<<<"p","a","r","k">>, <<"c","h","u","r","c","h">>, <<"s","c","h","o","o","l">>, <<"h","o","s","p","i","t","a","l">>, <<"m","a","l","l">>, <<"s","t","o","r","e">>,
                   <<"r","e","s","t","a","u","r","a","n","t">>, <<"c","a","f","e">>, <<"b","a","n","k">>, <<"l","i","b","r","a","r","y">>, <<"m","u","s","e","u","m">>,
                   <<"b","r","i","d","g","e">>, <<"s","t","a","t","i","o","n">>, <<"p","l","a","z","a">>, <<"s","q","u","a","r","e">>, <<"c","e","n","t","e","r">>>>

distanceUnits == <<<<"k","i","l","o","m","e","t","e","r","s">>, <<"k","i","l","o","m","e","t","e","r">>, <<"m","i","n","u","t","e","s">>, <<"m","i","n","u","t","e">>, <<"m","e","t","e","r","s">>, <<"m","e","t","e","r">>,
                   <<"b","l","o","c","k","s">>, <<"b","l","o","c","k">>, <<"m","i","l","e","s">>, <<"m","i","l","e">>, <<"k","m">>, <<"m","i","n">>, <<"m","i">>, <<"m">>>>

extractDirections(route) == filterIncluded(directionWords, route)

\* index after a match of (\w+)\s+suffix\b that starts at i; 0 when there is none
streetMatchEnd(s, suffix, i) ==
  LET q == wordRunEnd(s, i)
      r == spaceRunEnd(s, q)
      e == r + Len(suffix)
  IN IF q > i /\ r > q /\ startsAtIgnoreCase(s, suffix, r) /\ wordBoundary(s, e) THEN e ELSE 0

\* route.match(pattern) ?? [] for the global pattern of one suffix, scanning from i
RECURSIVE matchStreets(_, _, _)
matchStreets(s, suffix, i) ==
  LET starts == {j \in i..Len(s) : streetMatchEnd(s, suffix, j) > 0}
  IN IF starts = {} THEN <<>>
     ELSE LET j == CHOOSE m \in starts : \A n \in starts : m <= n
          IN <<SubSeq(s, j, streetMatchEnd(s, suffix, j) - 1)>>
             \o matchStreets(s, suffix, streetMatchEnd(s, suffix, j))

\* the loop over streetSuffixes, from suffix number k on
RECURSIVE streetMatches(_, _)
streetMatches(route, k) ==
  IF k > Len(streetSuffixes) THEN <<>>
  ELSE matchStreets(route, streetSuffixes[k], 1) \o streetMatches(route, k + 1)

extractStreets(route) ==
  LET matches == uniq(streetMatches(route, 1))
  IN [i \in 1..Len(matches) |-> trim(toLowerCase(matches[i]))]

extractLandmarks(route) == filterIncluded(landmarkWords, route)

\* index after a match of (\d+)\s*unit\b that starts at i; 0 when there is none
distanceMatchEnd(s, unit, i) ==
  LET q == digitRunEnd(s, i)
      r == spaceRunEnd(s, q)
      e == r + Len(unit)
  IN IF q > i /\ startsAtIgnoreCase(s, unit, r) /\ wordBoundary(s, e) THEN e ELSE 0

RECURSIVE matchDistances(_, _, _)
matchDistances(s, unit, i) ==
  LET starts == {j \in i..Len(s) : distanceMatchEnd(s, unit, j) > 0}
  IN IF starts = {} THEN <<>>
     ELSE LET j == CHOOSE m \in starts : \A n \in starts : m <= n
          IN <<SubSeq(s, j, distanceMatchEnd(s, unit, j) - 1)>>
             \o matchDistances(s, unit, distanceMatchEnd(s, unit, j))

RECURSIVE distanceMatches(_, _)
distanceMatches(route, k) ==
  IF k > Len(distanceUnits) THEN <<>>
  ELSE matchDistances(route, distanceUnits[k], 1) \o distanceMatches(route, k + 1)

extractDistances(route) ==
  LET matches == uniq(distanceMatches(route, 1))
  IN [i \in 1..Len(matches) |-> trim(toLowerCase(matches[i]))]

\* route is the character sequence of a string value
normalizeRoute(route) ==
  LET cleaned == trim(toLowerCase(route))
  IN [original |-> route,
      cleaned |-> cleaned,
      directions |-> extractDirections(cleaned),
      streets |-> extractStreets(cleaned),
      landmarks |-> extractLandmarks(cleaned),
      distances |-> extractDistances(cleaned),
      wordCount |-> splitWhitespaceLength(cleaned)]

(***************************************************************************)
(* Reference route feature extraction                                      *)
(***************************************************************************)
\* String.prototype.replace with a global literal pattern, scanning from i
RECURSIVE replaceAll(_, _, _, _)
replaceAll(s, pat, rep, i) ==
  IF i > Len(s) THEN <<>>
  ELSE IF startsAt(s, pat, i) THEN rep \o replaceAll(s, pat, rep, i + Len(pat))
       ELSE <<s[i]>> \o replaceAll(s, pat, rep, i + 1)

\* String.prototype.split on a one-character separator
RECURSIVE split(_, _)
split(s, sep) ==
  LET k == indexOf(s, <<sep>>)
  IN IF k = 0 THEN <<s>>
     ELSE <<SubSeq(s, 1, k - 1)>> \o split(SubSeq(s, k + 1, Len(s)), sep)

\* Array.prototype.join('')
RECURSIVE join(_)
join(parts) == IF parts = <<>> THEN <<>> ELSE Head(parts) \o join(Tail(parts))

decodeEntities(text) ==
  LET a == replaceAll(text, <<"&","l","t",";">>, <<"<">>, 1)
      b == replaceAll(a, <<"&","g","t",";">>, <<">">>, 1)
      c == replaceAll(b, <<"&","a","m","p",";">>, <<"&">>, 1)
      d == replaceAll(c, <<"&","q","u","o","t",";">>, <<"\"">>, 1)
  IN replaceAll(d, <<"&","#","3","9",";">>, <<"'">>, 1)

\* part.substring(part.indexOf('>')) : the cut one character too early
removeHtmlTags_cutBeforeBracket(text) ==
  IF Len(text) = 0 THEN <<>>
  ELSE LET parts == split(decodeEntities(text), "<")
           kept == [index \in 1..Len(parts) |->
                      IF index = 1 THEN parts[index]
                      ELSE SubSeq(parts[index], Max(indexOf(parts[index], <<">">>), 1),
                                  Len(parts[index]))]
       IN join(kept)

\* text is the character sequence of a string; the empty string is falsy
removeHtmlTags(text) ==
  IF Len(text) = 0 THEN <<>>
  ELSE LET parts == split(decodeEntities(text), "<")
           kept == [index \in 1..Len(parts) |->
                      IF index = 1 THEN parts[index]
                      ELSE SubSeq(parts[index], indexOf(parts[index], <<">">>) + 1, Len(parts[index]))]
       IN join(kept)

\* the cardinal words tested before the turn words
extractDirectionFromInstruction_cardinalFirst(instruction) ==
  LET cleaned == toLowerCase(removeHtmlTags(instruction))
  IN IF includes(cleaned, <<"n","o","r","t","h">>) THEN <<"n","o","r","t","h">>
     ELSE IF includes(cleaned, <<"s","o","u","t","h">>) THEN <<"s","o","u","t","h">>
     ELSE IF includes(cleaned, <<"e","a","s","t">>) THEN <<"e","a","s","t">>
     ELSE IF includes(cleaned, <<"w","e","s","t">>) THEN <<"w","e","s","t">>
     ELSE IF includes(cleaned, <<"t","u","r","n"," ","l","e","f","t">>) \/ includes(cleaned, <<"l","e","f","t">>) THEN <<"l","e","f","t">>
     ELSE IF includes(cleaned, <<"t","u","r","n"," ","r","i","g","h","t">>) \/ includes(cleaned, <<"r","i","g","h","t">>) THEN <<"r","i","g","h","t">>
     ELSE IF includes(cleaned, <<"s","t","r","a","i","g","h","t">>) \/ includes(cleaned, <<"c","o","n","t","i","n","u","e">>) THEN <<"s","t","r","a","i","g","h","t">>
     ELSE <<"u","n","k","n","o","w","n">>

extractDirectionFromInstruction(instruction) ==
  LET cleaned == toLowerCase(removeHtmlTags(instruction))
  IN IF includes(cleaned, <<"t","u","r","n"," ","l","e","f","t">>) \/ includes(cleaned, <<"l","e","f","t">>) THEN <<"l","e","f","t">>
     ELSE IF includes(cleaned, <<"t","u","r","n"," ","r","i","g","h","t">>) \/ includes(cleaned, <<"r","i","g","h","t">>) THEN <<"r","i","g","h","t">>
     ELSE IF includes(cleaned, <<"s","t","r","a","i","g","h","t">>) \/ includes(cleaned, <<"c","o","n","t","i","n","u","e">>) THEN <<"s","t","r","a","i","g","h","t">>
     ELSE IF includes(cleaned, <<"n","o","r","t","h">>) THEN <<"n","o","r","t","h">>
     ELSE IF includes(cleaned, <<"s","o","u","t","h">>) THEN <<"s","o","u","t","h">>
     ELSE IF includes(cleaned, <<"e","a","s","t">>) THEN <<"e","a","s","t">>
     ELSE IF includes(cleaned, <<"w","e","s","t">>) THEN <<"w","e","s","t">>
     ELSE <<"u","n","k","n","o","w","n">>

\* the first leg of the last alternative in the place of the first
firstLeg_lastAlternative(googleRoute) ==
  LET route == googleRoute.routes.items[Len(googleRoute.routes.items)]
  IN IF route.legs.type # "array" \/ Len(route.legs.items) = 0 THEN JSUndefined
     ELSE route.legs.items[1]

\* routes[0]?.legs?.[0] ; JSUndefined when a link of the chain is missing
firstLeg(googleRoute) ==
  LET route == googleRoute.routes.items[1]
  IN IF route.legs.type # "array" \/ Len(route.legs.items) = 0 THEN JSUndefined
     ELSE route.legs.items[1]

\* extractRouteSteps returns early with []
noRouteSteps(googleRoute) ==
  \/ googleRoute.type \in {"null", "undefined"}
  \/ googleRoute.routes.type # "array"
  \/ Len(googleRoute.routes.items) = 0
  \/ firstLeg(googleRoute) = JSUndefined

\* leg.steps.map raises a TypeError when the leg has no steps array
extractRouteStepsThrows(googleRoute) ==
  /\ ~noRouteSteps(googleRoute)
  /\ firstLeg(googleRoute).steps.type # "array"

extractRouteSteps(googleRoute) ==
  IF noRouteSteps(googleRoute) THEN <<>>
  ELSE LET steps == firstLeg(googleRoute).steps.items
       IN [k \in 1..Len(steps) |->
             [instruction |-> toLowerCase(removeHtmlTags(steps[k].instructions)),
              distance |-> steps[k].distance.text,
              duration |-> steps[k].duration.text,
              direction |-> extractDirectionFromInstruction(steps[k].instructions)]]

(***************************************************************************)
(* Scoring sub-functions.  A sub-score that the code computes by a         *)
(* division is kept as the exact fraction n/d with d > 0.                  *)
(***************************************************************************)
Fraction(n, d) == [n |-> n, d |-> d]
\* r < k for a fraction r and an integer k
lessThan(r, k) == r.n < k * r.d

\* googleSteps.flatMap(step => extractStreets(step.instruction)), from step k on
RECURSIVE googleStreetsFrom(_, _)
googleStreetsFrom(googleSteps, k) ==
  IF k > Len(googleSteps) THEN <<>>
  ELSE extractStreets(googleSteps[k].instruction) \o googleStreetsFrom(googleSteps, k + 1)

\* a user street matches when it contains, or is contained in, some reference street
streetMatchCount(userStreets, googleStreets) ==
  Cardinality({i \in 1..Len(userStreets) :
     \E g \in 1..Len(googleStreets) :
        includes(googleStreets[g], userStreets[i]) \/ includes(userStreets[i], googleStreets[g])})

maxPossibleMatches(userLength, googleLength) == Max(userLength, googleLength)

calculateRouteMatch(userRoute, googleSteps) ==
  IF Len(googleSteps) = 0 THEN Fraction(0, 1)
  ELSE LET googleStreets == googleStreetsFrom(googleSteps, 1)
           matches == streetMatchCount(userRoute.streets, googleStreets)
           maxPossible == maxPossibleMatches(Len(userRoute.streets), Len(googleStreets))
       IN IF maxPossible > 0 THEN Fraction(matches * 100, maxPossible) ELSE Fraction(0, 1)

\* the matches divided by the number of reference steps alone
calculateDirectionAccuracy_overReference(userRoute, googleSteps) ==
  IF Len(googleSteps) = 0 THEN Fraction(0, 1)
  ELSE LET googleDirections == [k \in 1..Len(googleSteps) |-> googleSteps[k].direction]
           matches == Cardinality({i \in 1..Len(userRoute.directions) :
                         \E g \in 1..Len(googleDirections) :
                            googleDirections[g] = userRoute.directions[i]})
       IN Fraction(matches * 100, Len(googleDirections))

\* a user route without directions counted as having every direction right
calculateDirectionAccuracy_vacuous(userRoute, googleSteps) ==
  IF Len(googleSteps) = 0 THEN Fraction(0, 1)
  ELSE LET googleDirections == [k \in 1..Len(googleSteps) |-> googleSteps[k].direction]
           matches == Cardinality({i \in 1..Len(userRoute.directions) :
                         \E g \in 1..Len(googleDirections) :
                            googleDirections[g] = userRoute.directions[i]})
       IN IF Len(userRoute.directions) > 0
          THEN Fraction(matches * 100, Max(Len(userRoute.directions), Len(googleDirections)))
          ELSE Fraction(100, 1)

\* the user's directions scored against themselves when the reference has no step
calculateDirectionAccuracy_noReference(userRoute, googleSteps) ==
  LET googleDirections == [k \in 1..Len(googleSteps) |-> googleSteps[k].direction]
      matches == IF Len(googleSteps) = 0 THEN Len(userRoute.directions)
                 ELSE Cardinality({i \in 1..Len(userRoute.directions) :
                         \E g \in 1..Len(googleDirections) :
                            googleDirections[g] = userRoute.directions[i]})
      maxPossible == maxPossibleMatches(Len(userRoute.directions), Len(googleDirections))
  IN IF maxPossible > 0 THEN Fraction(matches * 100, maxPossible) ELSE Fraction(0, 1)

calculateDirectionAccuracy(userRoute, googleSteps) ==
  IF Len(googleSteps) = 0 THEN Fraction(0, 1)
  ELSE LET googleDirections == [k \in 1..Len(googleSteps) |-> googleSteps[k].direction]
           matches == Cardinality({i \in 1..Len(userRoute.directions) :
                         \E g \in 1..Len(googleDirections) :
                            googleDirections[g] = userRoute.directions[i]})
           maxPossible == maxPossibleMatches(Len(userRoute.directions), Len(googleDirections))
       IN IF maxPossible > 0 THEN Fraction(matches * 100, maxPossible) ELSE Fraction(0, 1)

\* forty points a landmark, without the cap at three landmarks
calculateLandmarkScore_linear(userRoute) == Len(userRoute.landmarks) * 40

\* the formula of the earlier services/scoring.js : landmark points plus street points
calculateLandmarkScore_legacy(userRoute) ==
  Min(50, Len(userRoute.landmarks) * 25) + Min(50, Len(userRoute.streets) * 15)

calculateLandmarkScore(userRoute) ==
  LET landmarkCount == Len(userRoute.landmarks)
  IN IF landmarkCount = 0 THEN 0
     ELSE IF landmarkCount = 1 THEN 40
     ELSE IF landmarkCount = 2 THEN 70
     ELSE IF landmarkCount >= 3 THEN 100
     ELSE 0

\* the word-count thresholds compared with > instead of >=
calculateCompletenessScore_strict(userRoute, googleSteps) ==
  LET wordCount == userRoute.wordCount
      words == IF wordCount > 50 THEN 30
               ELSE IF wordCount > 30 THEN 20
               ELSE IF wordCount > 15 THEN 10
               ELSE 0
      score == words
               + (IF Len(userRoute.directions) > 0 THEN 20 ELSE 0)
               + (IF Len(userRoute.streets) > 0 THEN 20 ELSE 0)
               + (IF Len(userRoute.landmarks) > 0 THEN 20 ELSE 0)
               + (IF Len(userRoute.distances) > 0 THEN 10 ELSE 0)
  IN Min(score, 100)

calculateCompletenessScore(userRoute, googleSteps) ==
  LET wordCount == userRoute.wordCount
      hasDirections == Len(userRoute.directions) > 0
      hasStreets == Len(userRoute.streets) > 0
      hasLandmarks == Len(userRoute.landmarks) > 0
      hasDistances == Len(userRoute.distances) > 0
      words == IF wordCount >= 50 THEN 30
               ELSE IF wordCount >= 30 THEN 20
               ELSE IF wordCount >= 15 THEN 10
               ELSE 0
      score == words
               + (IF hasDirections THEN 20 ELSE 0)
               + (IF hasStreets THEN 20 ELSE 0)
               + (IF hasLandmarks THEN 20 ELSE 0)
               + (IF hasDistances THEN 10 ELSE 0)
  IN Min(score, 100)

\* routeMatch * 0.4 + directionAccuracy * 0.3 + landmarkMention * 0.2 + completeness * 0.1
weightedSum(breakdown) ==
  LET rm == breakdown.routeMatch
      da == breakdown.directionAccuracy
  IN Fraction(4 * rm.n * da.d + 3 * da.n * rm.d
                + (2 * breakdown.landmarkMention + breakdown.completeness) * rm.d * da.d,
              10 * rm.d * da.d)

\* Math.floor in the place of Math.round
mathRound_floor(r) == r.n \div r.d

\* Math.round : the nearest integer, a tie going to the larger one
mathRound(r) == (2 * r.n + r.d) \div (2 * r.d)

(***************************************************************************)
(* Feedback generation                                                     *)
(***************************************************************************)
msgRouteMatch == "Try to mention more specific street names or landmarks"
msgDirectionAccuracy == "Include more directional information (left, right, north, south, etc.)"
msgLandmarkMention == "Mention notable landmarks to help with navigation"
msgCompleteness == "Provide more detailed descriptions of the route"
msgShort == "Your description is quite short - try to add more detail"
msgNoDirections == "Include directional instructions in your route"
msgGreatJob == "Great job! Your route description was detailed and accurate."

\* feedback.push(msg) under a condition
pushIf(cond, msg) == IF cond THEN <<msg>> ELSE <<>>

\* the six conditions as an else-if chain: the first that holds silences the others
generateFeedback_elseChain(breakdown, userRoute, googleSteps) ==
  IF lessThan(breakdown.routeMatch, 50) THEN <<msgRouteMatch>>
  ELSE IF lessThan(breakdown.directionAccuracy, 50) THEN <<msgDirectionAccuracy>>
  ELSE IF breakdown.landmarkMention < 50 THEN <<msgLandmarkMention>>
  ELSE IF breakdown.completeness < 50 THEN <<msgCompleteness>>
  ELSE IF userRoute.wordCount < 20 THEN <<msgShort>>
  ELSE IF Len(userRoute.directions) = 0 THEN <<msgNoDirections>>
  ELSE <<msgGreatJob>>

\* the positive message pushed whatever the list holds
generateFeedback_alwaysPositive(breakdown, userRoute, googleSteps) ==
  pushIf(lessThan(breakdown.routeMatch, 50), msgRouteMatch)
  \o pushIf(lessThan(breakdown.directionAccuracy, 50), msgDirectionAccuracy)
  \o pushIf(breakdown.landmarkMention < 50, msgLandmarkMention)
  \o pushIf(breakdown.completeness < 50, msgCompleteness)
  \o pushIf(userRoute.wordCount < 20, msgShort)
  \o pushIf(Len(userRoute.directions) = 0, msgNoDirections)
  \o <<msgGreatJob>>

generateFeedback(breakdown, userRoute, googleSteps) ==
  LET feedback ==
        pushIf(lessThan(breakdown.routeMatch, 50), msgRouteMatch)
        \o pushIf(lessThan(breakdown.directionAccuracy, 50), msgDirectionAccuracy)
        \o pushIf(breakdown.landmarkMention < 50, msgLandmarkMention)
        \o pushIf(breakdown.completeness < 50, msgCompleteness)
        \o pushIf(userRoute.wordCount < 20, msgShort)
        \o pushIf(Len(userRoute.directions) = 0, msgNoDirections)
  IN IF Len(feedback) = 0 THEN <<msgGreatJob>> ELSE feedback

(***************************************************************************)
(* calculateScore                                                          *)
(***************************************************************************)
\* the early return taken for a missing user route only
degenerate_userOnly(userRoute, googleRoute) == Falsy(userRoute)

\* the guard of the early return
degenerate(userRoute, googleRoute) == Falsy(userRoute) \/ Falsy(googleRoute)

zeroResult ==
  [score |-> 0,
   maxScore |-> 100,
   breakdown |-> [routeMatch |-> Fraction(0, 1),
                  directionAccuracy |-> Fraction(0, 1),
                  landmarkMention |-> 0,
                  completeness |-> 0],
   feedback |-> <<>>]

\* normalizeRoute calls route.toLowerCase(), which only a string has, and
\* extractRouteSteps calls leg.steps.map
calculateScoreThrows(userRoute, googleRoute) ==
  \/ userRoute.type # "string"
  \/ extractRouteStepsThrows(googleRoute)

scoreOf(userRouteNormalized, googleSteps) ==
  LET breakdown == [routeMatch |-> calculateRouteMatch(userRouteNormalized, googleSteps),
                    directionAccuracy |-> calculateDirectionAccuracy(userRouteNormalized, googleSteps),
                    landmarkMention |-> calculateLandmarkScore(userRouteNormalized),
                    completeness |-> calculateCompletenessScore(userRouteNormalized, googleSteps)]
  IN [score |-> mathRound(weightedSum(breakdown)),
      maxScore |-> 100,
      breakdown |-> breakdown,
      feedback |-> generateFeedback(breakdown, userRouteNormalized, googleSteps)]

\* what calculateScore returns when it returns
calculateScore(userRouteValue, googleRouteValue) ==
  IF degenerate(userRouteValue, googleRouteValue) THEN zeroResult
  ELSE scoreOf(normalizeRoute(userRouteValue.value), extractRouteSteps(googleRouteValue))

(***************************************************************************)
(* Score presentation                                                      *)
(***************************************************************************)
\* the tests for 70 and 80 with each other's description
getScoreDescription_swapped(score) ==
  IF score >= 90 THEN "Excellent Navigation!"
  ELSE IF score >= 80 THEN "Good Navigation"
  ELSE IF score >= 70 THEN "Great Job!"
  ELSE IF score >= 60 THEN "Not Bad"
  ELSE IF score >= 50 THEN "Needs Work"
  ELSE "Keep Practicing"

getScoreDescription(score) ==
  IF score >= 90 THEN "Excellent Navigation!"
  ELSE IF score >= 80 THEN "Great Job!"
  ELSE IF score >= 70 THEN "Good Navigation"
  ELSE IF score >= 60 THEN "Not Bad"
  ELSE IF score >= 50 THEN "Needs Work"
  ELSE "Keep Practicing"

getScoreColor(score) ==
  IF score >= 90 THEN "#4CAF50"
  ELSE IF score >= 80 THEN "#8BC34A"
  ELSE IF score >= 70 THEN "#FFC107"
  ELSE IF score >= 60 THEN "#FF9800"
  ELSE IF score >= 50 THEN "#FF5722"
  ELSE "#F44336"

(***************************************************************************)
(* utils/testUtils.js                                                      *)
(***************************************************************************)
\* the number of words of userWords that correctWords includes
RECURSIVE matchingWords(_, _)
matchingWords(userWords, correctWords) ==
  IF userWords = <<>> THEN 0
  ELSE (IF \E k \in 1..Len(correctWords) : correctWords[k] = Head(userWords) THEN 1 ELSE 0)
       + matchingWords(Tail(userWords), correctWords)

calculateBasicScore(userRouteValue, correctRouteValue) ==
  IF Falsy(userRouteValue) \/ Falsy(correctRouteValue) THEN 0
  ELSE LET userWords == split(toLowerCase(userRouteValue.value), " ")
           correctWords == split(toLowerCase(correctRouteValue.value), " ")
       IN mathRound(Fraction(matchingWords(userWords, correctWords) * 100, Len(correctWords)))


(***************************************************************************)
(* Inputs                                                                  *)
(***************************************************************************)
MaxWords == 2
MaxSteps == 2
MaxKeywords == 2

SeqsUpTo(S, n) == UNION {[1..k -> S] : k \in 0..n}

\* words separated by one space
RECURSIVE joinWords(_)
joinWords(ws) ==
  IF Len(ws) = 0 THEN <<>>
  ELSE IF Len(ws) = 1 THEN ws[1]
  ELSE ws[1] \o <<" ">> \o joinWords(Tail(ws))

\* text followed by k more words "a"
RECURSIVE padded(_, _)
padded(text, k) == IF k = 0 THEN text ELSE padded(text, k - 1) \o <<" ","a">>

UserVocabulary == {<<"l","e","f","t">>, <<"M","a","i","n">>, <<"S","t","r","e","e","t">>, <<"p","a","r","k">>}

ScenarioTexts ==
  {<<"G","o"," ","n","o","r","t","h"," ","o","n"," ","M","a","i","n"," ","S","t","r","e","e","t">>,
   <<"G","o"," ","n","o","r","t","h"," ","t","h","e","n"," ","t","u","r","n"," ","l","e","f","t">>,
   <<"L","e","f","t"," ","a","t"," ","t","h","e"," ","b","r","i","d","g","e"," ","b","y"," ","t","h","e"," ","p","a","r","k">>,
   <<"b","a","n","k"," ","t","h","e","n"," ","l","i","b","r","a","r","y"," ","t","h","e","n"," ","m","u","s","e","u","m">>,
   <<"p","a","s","t"," ","t","h","e"," ","p","a","r","k"," ","c","h","u","r","c","h"," ","s","c","h","o","o","l"," ","a","n","d"," ","m","a","l","l">>,
   <<"M","a","i","n"," ","S","t">>,
   <<" "," ","L","E","F","T"," ","o","n"," "," ","M","a","i","n"," ","S","t","r","e","e","t","."," ">>,
   <<" "," "," ">>}

\* numbers of filler words that put the word count on either side of 15, 30 and 50
PadCounts == {13, 28, 48}

\* texts that the filler words lengthen: none, one, two and all of the four details
PadBases ==
  {<<>>, <<"l","e","f","t">>, <<"p","a","r","k">>, <<"5","k","m">>, <<"M","a","i","n"," ","S","t","r","e","e","t">>, <<"l","e","f","t"," ","p","a","r","k">>, <<"M","a","i","n"," ","S","t","r","e","e","t"," ","5","k","m">>,
   <<"l","e","f","t"," ","a","t"," ","t","h","e"," ","p","a","r","k"," ","o","n"," ","M","a","i","n"," ","S","t","r","e","e","t"," ","5","k","m">>, <<"l","e","f","t"," ","a","t"," ","t","h","e"," ","p","a","r","k"," ","c","h","u","r","c","h"," ","o","n"," ","M","a","i","n"," ","S","t","r","e","e","t"," ","5","k","m">>,
   <<"l","e","f","t"," ","a","t"," ","t","h","e"," ","p","a","r","k"," ","c","h","u","r","c","h"," ","s","c","h","o","o","l"," ","o","n"," ","M","a","i","n"," ","S","t","r","e","e","t"," ","5","k","m">>}

ShortTexts == {joinWords(ws) : ws \in SeqsUpTo(UserVocabulary, MaxWords)} \cup ScenarioTexts

LongTexts == {padded(t, k) : t \in PadBases, k \in PadCounts}

UserTexts == ShortTexts \cup LongTexts

\* values that are not strings, as an untyped caller can pass them
NonStringRoutes == {JSNumber(0), JSNumber(123), [type |-> "object"]}

UserRoutes == {JSNull, JSUndefined} \cup NonStringRoutes \cup {JSString(t) : t \in UserTexts}

StepInstructions ==
  {<<"H","e","a","d"," ","n","o","r","t","h"," ","o","n"," ","M","a","i","n"," ","S","t","r","e","e","t">>,
   <<"T","u","r","n"," ","<","b",">","l","e","f","t","<","/","b",">"," ","o","n","t","o"," ","<","b",">","M","a","i","n"," ","S","t","r","e","e","t","<","/","b",">">>,
   <<"G","o"," ","<","b",">","n","o","r","t","h","<","/","b",">"," ","o","n"," ","M","a","i","n"," ","S","t">>}

Step(instructions) ==
  [instructions |-> instructions,
   distance |-> [text |-> "0.2 km", value |-> 200],
   duration |-> [text |-> "1 min", value |-> 60]]

GoogleRouteOf(instructionSeq) ==
  [type |-> "object",
   routes |-> JSArray(<<[legs |-> JSArray(<<[steps |->
                 JSArray([k \in 1..Len(instructionSeq) |-> Step(instructionSeq[k])])]>>)]>>)]

GoogleRoutes ==
  {JSNull,
   [type |-> "object", routes |-> JSArray(<<>>)],
   [type |-> "object", routes |-> JSArray(<<[legs |-> JSArray(<<>>)]>>)]}
  \cup {GoogleRouteOf(is) : is \in SeqsUpTo(StepInstructions, MaxSteps)}

DirectionKeywords ==
  {<<"l","e","f","t">>, <<"r","i","g","h","t">>, <<"s","t","r","a","i","g","h","t">>, <<"c","o","n","t","i","n","u","e">>, <<"n","o","r","t","h">>, <<"s","o","u","t","h">>, <<"e","a","s","t">>, <<"w","e","s","t">>, <<"o","n","t","o">>}

DirectionInstructions ==
  StepInstructions
  \cup {<<"T","u","r","n"," ","l","e","f","t"," ","o","n","t","o"," ","N","o","r","t","h"," ","S","t","r","e","e","t">>, <<"T","u","r","n"," ","<","b",">","r","i","g","h","t","<","/","b",">"," ","a","t"," ","W","e","s","t"," ","R","o","a","d">>, <<"H","E","A","D"," ","E","A","S","T">>,
        <<"T","a","k","e"," ","t","h","e"," ","e","x","i","t">>}
  \cup {joinWords(ws) : ws \in SeqsUpTo(DirectionKeywords, MaxKeywords)}

\* arguments of generateFeedback on either side of each of its six thresholds
FeedbackBreakdowns ==
  [routeMatch : {Fraction(0, 1), Fraction(149, 3), Fraction(50, 1)},
   directionAccuracy : {Fraction(100, 3), Fraction(50, 1), Fraction(100, 1)},
   landmarkMention : {0, 40, 70},
   completeness : {40, 50, 100}]

FeedbackUserRoutes == [wordCount : {1, 19, 20}, directions : {<<>>, <<<<"l","e","f","t">>>>}]

\* a leg and an alternative of a reference, without and with the fields the
\* scorer does not read
Leg(instructionSeq) ==
  [steps |-> JSArray([k \in 1..Len(instructionSeq) |-> Step(instructionSeq[k])])]

LegWithFields(instructionSeq) ==
  [steps |-> JSArray([k \in 1..Len(instructionSeq) |-> Step(instructionSeq[k])]),
   distance |-> [text |-> "1.2 km", value |-> 1200],
   duration |-> [text |-> "5 mins", value |-> 300]]

Route(legs) == [legs |-> JSArray(legs)]

Reference(routes) == [type |-> "object", routes |-> JSArray(routes)]

\* references with an empty or absent list at one of the three levels
ReferenceShapes ==
  {JSNull,
   JSUndefined,
   [type |-> "object", routes |-> JSUndefined],
   Reference(<<>>),
   Reference(<<[legs |-> JSUndefined]>>),
   Reference(<<Route(<<>>)>>),
   Reference(<<Route(<<[steps |-> JSUndefined]>>)>>),
   Reference(<<Route(<<Leg(<<>>)>>)>>)}

\* step instructions with tags, entities and stray angle brackets
MarkupInstructions ==
  {<<"G","o"," ","<","b",">","n","o","r","t","h","<","/","b",">"," ","o","n"," ","M","a","i","n"," ","S","t">>,
   <<"T","u","r","n"," ","<","b",">","l","e","f","t","<","/","b",">"," ","o","n","t","o"," ","<","b",">","M","a","i","n"," ","S","t","r","e","e","t","<","/","b",">">>,
   <<"H","e","a","d"," ","<","i",">","e","a","s","t","<","/","i",">","<","b","r",">","t","o","w","a","r","d"," ","O","a","k"," ","A","v","e">>,
   <<"K","e","e","p"," ","r","i","g","h","t"," ","a","t"," ","T","o","m"," ","&","a","m","p",";"," ","J","e","r","r","y"," ","R","d">>,
   <<"T","a","k","e"," ","e","x","i","t"," ","5"," ","&","g","t",";"," ","M","a","i","n"," ","S","t">>,
   <<"M","a","i","n"," ","S","t"," ","-",">"," ","O","a","k"," ","A","v","e">>,
   <<"U","p"," ","t","o"," ","5"," ","&","l","t",";"," ","1","0"," ","&","g","t",";"," ","3"," ","k","m"," ","o","n"," ","M","a","i","n"," ","S","t">>,
   <<"T","u","r","n"," ","l","e","f","t"," ","<","b">>,
   <<>>}

MarkupRoutes ==
  {GoogleRouteOf(<<i>>) : i \in MarkupInstructions}
  \cup {GoogleRouteOf(<<<<"G","o"," ","<","b",">","n","o","r","t","h","<","/","b",">"," ","o","n"," ","M","a","i","n"," ","S","t">>, <<"T","u","r","n"," ","<","b",">","l","e","f","t","<","/","b",">"," ","o","n","t","o"," ","<","b",">","M","a","i","n"," ","S","t","r","e","e","t","<","/","b",">">>>>)}

\* the steps of the leg that is scored, and those of another leg or alternative
FirstLegSteps == SeqsUpTo(StepInstructions, MaxSteps) \ {<<>>}

OtherLegSteps == {<<>>, <<<<"T","u","r","n"," ","<","b",">","r","i","g","h","t","<","/","b",">"," ","o","n","t","o"," ","O","a","k"," ","A","v","e","n","u","e">>>>}

\* references that differ from GoogleRouteOf(first) outside routes[0].legs[0].steps
VariantsOf(first) ==
  {Reference(<<Route(<<Leg(first)>>), Route(<<Leg(other)>>)>>) : other \in OtherLegSteps}
  \cup {Reference(<<Route(<<Leg(first), Leg(other)>>)>>) : other \in OtherLegSteps}
  \cup {Reference(<<[legs |-> JSArray(<<LegWithFields(first)>>),
                     overview_polyline |-> [points |-> "a~l~Fjk~uOwHJy@P"]]>>)}

VariantRoutes == UNION {VariantsOf(first) : first \in FirstLegSteps}

VariantUserRoutes ==
  {JSString(<<"G","o"," ","n","o","r","t","h"," ","o","n"," ","M","a","i","n"," ","S","t","r","e","e","t">>), JSString(<<"l","e","f","t"," ","o","n"," ","O","a","k"," ","A","v","e","n","u","e">>), JSString(<<"M","a","i","n"," ","S","t">>)}

\* the scores calculateScore can return
Scores == 0..100

\* route descriptions for calculateBasicScore
BasicVocabulary == {<<"G","o">>, <<"n","o","r","t","h">>, <<"o","n">>}

BasicRoutes ==
  {JSNull}
  \cup {JSString(joinWords(ws)) : ws \in SeqsUpTo(BasicVocabulary, MaxWords)}
  \cup {JSString(<<"G","o"," ","n","o","r","t","h"," ","o","n"," ","M","a","i","n"," ","S","t","r","e","e","t">>), JSString(<<"G","O"," ","S","O","U","T","H"," ","O","N"," ","M","A","I","N"," ","S","T","R","E","E","T">>),
        JSString(<<"g","o"," "," ","n","o","r","t","h">>)}

(***************************************************************************)
(* State: one call of an exported or internal function of the service.     *)
(***************************************************************************)
VARIABLES
  call,         \* the function that is called, "useGame" for the mounted hook
  userRoute,    \* calculateScore's first argument, a JavaScript value; the hook's userRoute
  googleRoute,  \* calculateScore's second argument, a JavaScript value; the hook's googleRoute
  instruction,  \* extractDirectionFromInstruction's argument
  args,         \* the arguments of the other functions, by parameter name
  pc,           \* "call" before the call, "returned" or "threw" after it; for the
                \* hook "mounted" and then the callback that ran last
  userRouteNormalized, \* calculateScore's local: the normalized user route
  googleSteps,  \* calculateScore's local: the steps of the reference
  result,       \* the ScoreResult calculateScore returned
  direction,    \* the direction extractDirectionFromInstruction returned
  returnValue,  \* what the other functions returned
  gameState,    \* useGame: one of GAME_STATES
  startPoint,   \* useGame: a Point or null
  endPoint,     \* useGame: a Point or null
  score,        \* useGame: the score of the round
  error,        \* useGame: an error message or null
  gameData,     \* useGame: startTime, endTime, attempts
  now,          \* the clock that new Date() reads
  component,    \* the Game component: its own state, and the effects, requests and
                \* timers it has started
  service       \* the MapsService singleton: its fields, and the initialize calls in flight

callVars == <<call, instruction, args, userRouteNormalized, googleSteps, result, direction,
              returnValue>>

gameVars == <<gameState, startPoint, endPoint, score, error, gameData, now>>

vars == <<call, userRoute, googleRoute, instruction, args, pc, userRouteNormalized, googleSteps,
          result, direction, returnValue, gameState, startPoint, endPoint, score, error,
          gameData, now, component, service>>

\* the useState initial values of the hook, userRoute and googleRoute apart
useGameInitial ==
  /\ gameState = "idle"
  /\ startPoint = JSNull
  /\ endPoint = JSNull
  /\ score = 0
  /\ error = JSNull
  /\ gameData = [startTime |-> JSNull, endTime |-> JSNull, attempts |-> 0]

noArgs == [none |-> TRUE]

\* no Game component is rendered
noComponent == [mounted |-> FALSE]

\* the fields of a MapsService as its class body initializes them
newMapsService ==
  [loader |-> JSNull,
   map |-> JSNull,
   directionsService |-> JSNull,
   directionsRenderer |-> JSNull,
   isLoaded |-> FALSE]

\* the callers of mapsService.initialize that the model follows
MaxCallers == 2

Callers == 1..MaxCallers

\* the exported singleton before any call: its fields, the position of each
\* caller of initialize ("idle", "loading" at the await, "returned", "threw"),
\* the Loader objects constructed and the load() calls started and completed,
\* and the operation called last with what it returned or threw
mapsServiceExport ==
  [fields |-> newMapsService,
   initialize |-> [c \in Callers |-> "idle"],
   loadersCreated |-> 0,
   loadsStarted |-> 0,
   loadsCompleted |-> 0,
   operation |-> "none",
   outcome |-> JSUndefined]

InitCalculateScore ==
  /\ call = "calculateScore"
  /\ userRoute \in UserRoutes
  /\ googleRoute \in GoogleRoutes
  /\ instruction = <<>>
  /\ args = noArgs

InitExtractDirection ==
  /\ call = "extractDirectionFromInstruction"
  /\ userRoute = JSNull
  /\ googleRoute = JSNull
  /\ instruction \in DirectionInstructions
  /\ args = noArgs

InitGenerateFeedback ==
  /\ call = "generateFeedback"
  /\ userRoute = JSNull
  /\ googleRoute = JSNull
  /\ instruction = <<>>
  /\ args \in [breakdown : FeedbackBreakdowns, userRoute : FeedbackUserRoutes]

\* calculateScore with references that carry more than the scored leg, and
\* with the references that have a list missing
InitCalculateScoreVariants ==
  /\ call = "calculateScore"
  /\ userRoute \in VariantUserRoutes
  /\ googleRoute \in VariantRoutes \cup ReferenceShapes
  /\ instruction = <<>>
  /\ args = noArgs

InitExtractRouteSteps ==
  /\ call = "extractRouteSteps"
  /\ userRoute = JSNull
  /\ googleRoute \in ReferenceShapes \cup MarkupRoutes \cup VariantRoutes
  /\ instruction = <<>>
  /\ args = noArgs

InitGetScoreDescription ==
  /\ call = "getScoreDescription"
  /\ userRoute = JSNull
  /\ googleRoute = JSNull
  /\ instruction = <<>>
  /\ args \in [score : Scores]

InitGetScoreColor ==
  /\ call = "getScoreColor"
  /\ userRoute = JSNull
  /\ googleRoute = JSNull
  /\ instruction = <<>>
  /\ args \in [score : Scores]

InitCalculateBasicScore ==
  /\ call = "calculateBasicScore"
  /\ userRoute = JSNull
  /\ googleRoute = JSNull
  /\ instruction = <<>>
  /\ args \in [userRoute : BasicRoutes, correctRoute : BasicRoutes]

Init ==
  /\ \/ InitCalculateScore
     \/ InitCalculateScoreVariants
     \/ InitExtractDirection
     \/ InitGenerateFeedback
     \/ InitExtractRouteSteps
     \/ InitGetScoreDescription
     \/ InitGetScoreColor
     \/ InitCalculateBasicScore
  /\ pc = "call"
  /\ userRouteNormalized = JSUndefined
  /\ googleSteps = <<>>
  /\ result = JSUndefined
  /\ direction = <<>>
  /\ returnValue = JSUndefined
  /\ useGameInitial
  /\ now = 0
  /\ component = noComponent
  /\ service = mapsServiceExport

\* one call of calculateScore, to its return or its exception
CalculateScore ==
  /\ pc = "call"
  /\ call = "calculateScore"
  /\ IF degenerate(userRoute, googleRoute)
     THEN /\ pc' = "returned"
          /\ result' = zeroResult
          /\ UNCHANGED <<userRouteNormalized, googleSteps>>
     ELSE IF calculateScoreThrows(userRoute, googleRoute)
     THEN /\ pc' = "threw"
          /\ UNCHANGED <<userRouteNormalized, googleSteps, result>>
     ELSE /\ pc' = "returned"
          /\ userRouteNormalized' = normalizeRoute(userRoute.value)
          /\ googleSteps' = extractRouteSteps(googleRoute)
          /\ result' = scoreOf(userRouteNormalized', googleSteps')
  /\ UNCHANGED <<call, userRoute, googleRoute, instruction, args, direction, returnValue>>
  /\ UNCHANGED gameVars
  /\ UNCHANGED <<component, service>>

\* one call of extractDirectionFromInstruction
ExtractDirectionFromInstruction ==
  /\ pc = "call"
  /\ call = "extractDirectionFromInstruction"
  /\ pc' = "returned"
  /\ direction' = extractDirectionFromInstruction(instruction)
  /\ UNCHANGED <<call, userRoute, googleRoute, instruction, args, userRouteNormalized,
                 googleSteps, result, returnValue>>
  /\ UNCHANGED gameVars
  /\ UNCHANGED <<component, service>>

\* one call of generateFeedback
GenerateFeedback ==
  /\ pc = "call"
  /\ call = "generateFeedback"
  /\ pc' = "returned"
  /\ returnValue' = generateFeedback(args.breakdown, args.userRoute, <<>>)
  /\ UNCHANGED <<call, userRoute, googleRoute, instruction, args, userRouteNormalized,
                 googleSteps, result, direction>>
  /\ UNCHANGED gameVars
  /\ UNCHANGED <<component, service>>

\* one call of extractRouteSteps, to its return or its exception
ExtractRouteSteps ==
  /\ pc = "call"
  /\ call = "extractRouteSteps"
  /\ IF extractRouteStepsThrows(googleRoute)
     THEN pc' = "threw" /\ UNCHANGED googleSteps
     ELSE pc' = "returned" /\ googleSteps' = extractRouteSteps(googleRoute)
  /\ UNCHANGED <<call, userRoute, googleRoute, instruction, args, userRouteNormalized,
                 result, direction, returnValue>>
  /\ UNCHANGED gameVars
  /\ UNCHANGED <<component, service>>

\* one call of getScoreDescription
GetScoreDescription ==
  /\ pc = "call"
  /\ call = "getScoreDescription"
  /\ pc' = "returned"
  /\ returnValue' = getScoreDescription(args.score)
  /\ UNCHANGED <<call, userRoute, googleRoute, instruction, args, userRouteNormalized,
                 googleSteps, result, direction>>
  /\ UNCHANGED gameVars
  /\ UNCHANGED <<component, service>>

\* one call of getScoreColor
GetScoreColor ==
  /\ pc = "call"
  /\ call = "getScoreColor"
  /\ pc' = "returned"
  /\ returnValue' = getScoreColor(args.score)
  /\ UNCHANGED <<call, userRoute, googleRoute, instruction, args, userRouteNormalized,
                 googleSteps, result, direction>>
  /\ UNCHANGED gameVars
  /\ UNCHANGED <<component, service>>

\* one call of calculateBasicScore
CalculateBasicScore ==
  /\ pc = "call"
  /\ call = "calculateBasicScore"
  /\ pc' = "returned"
  /\ returnValue' = calculateBasicScore(args.userRoute, args.correctRoute)
  /\ UNCHANGED <<call, userRoute, googleRoute, instruction, args, userRouteNormalized,
                 googleSteps, result, direction>>
  /\ UNCHANGED gameVars
  /\ UNCHANGED <<component, service>>

Next ==
  \/ CalculateScore
  \/ ExtractDirectionFromInstruction
  \/ GenerateFeedback
  \/ ExtractRouteSteps
  \/ GetScoreDescription
  \/ GetScoreColor
  \/ CalculateBasicScore

Spec == Init /\ [][Next]_vars

(***************************************************************************)
(* The useGame hook: its state, and one action for each callback it        *)
(* returns. A callback runs on the state of the last render.               *)
(***************************************************************************)
MaxTime == 2
MaxAttempts == 2

\* a Date, by its time
JSDate(t) == [type |-> "date", value |-> t]

\* new Date()
newDate == JSDate(now)

Points == {[type |-> "object", lat |-> 40, lng |-> -74], [type |-> "object", lat |-> 41, lng |-> -73]}

HookUserRoutes == {JSString(<<>>), JSString(<<" "," "," ">>), JSString(<<"G","o"," ","n","o","r","t","h"," ","o","n"," ","M","a","i","n"," ","S","t","r","e","e","t">>)}

HookGoogleRoutes == {GoogleRouteOf(<<<<"H","e","a","d"," ","n","o","r","t","h"," ","o","n"," ","M","a","i","n"," ","S","t","r","e","e","t">>>>)}

HookScores == {0, 85}

ErrorMessages == {JSString(<<"F","a","i","l","e","d"," ","t","o"," ","c","a","l","c","u","l","a","t","e"," ","r","o","u","t","e">>)}

msgEnterRoute == JSString(<<"P","l","e","a","s","e"," ","e","n","t","e","r"," ","a"," ","r","o","u","t","e"," ","d","e","s","c","r","i","p","t","i","o","n">>)

InitUseGame ==
  /\ call = "useGame"
  /\ pc = "mounted"
  /\ userRoute = JSString(<<>>)
  /\ googleRoute = JSNull
  /\ useGameInitial
  /\ now = 0
  /\ instruction = <<>>
  /\ args = noArgs
  /\ userRouteNormalized = JSUndefined
  /\ googleSteps = <<>>
  /\ result = JSUndefined
  /\ direction = <<>>
  /\ returnValue = JSUndefined
  /\ component = noComponent
  /\ service = mapsServiceExport

\* time passes
Tick ==
  /\ call = "useGame"
  /\ now < MaxTime
  /\ now' = now + 1
  /\ UNCHANGED <<userRoute, googleRoute, pc, gameState, startPoint, endPoint, score, error,
                 gameData>>
  /\ UNCHANGED callVars
  /\ UNCHANGED <<component, service>>

initializeGame(start, end) ==
  /\ call = "useGame"
  /\ pc' = "initializeGame"
  /\ startPoint' = start
  /\ endPoint' = end
  /\ userRoute' = JSString(<<>>)
  /\ googleRoute' = JSNull
  /\ score' = 0
  /\ error' = JSNull
  /\ gameData' = [startTime |-> newDate, endTime |-> JSNull, attempts |-> 0]
  /\ gameState' = "mapLoaded"
  /\ UNCHANGED now
  /\ UNCHANGED callVars

InitializeGame ==
  /\ \E start \in Points : \E end \in Points \ {start} : initializeGame(start, end)
  /\ UNCHANGED <<component, service>>

startRouteInput ==
  /\ call = "useGame"
  /\ pc' = "startRouteInput"
  /\ gameState' = "routeInput"
  /\ UNCHANGED <<userRoute, googleRoute, startPoint, endPoint, score, error, gameData, now>>
  /\ UNCHANGED callVars

updateUserRoute(route) ==
  /\ call = "useGame"
  /\ pc' = "updateUserRoute"
  /\ userRoute' = route
  /\ UNCHANGED <<googleRoute, gameState, startPoint, endPoint, score, error, gameData, now>>
  /\ UNCHANGED callVars

UpdateUserRoute ==
  /\ \E route \in HookUserRoutes : updateUserRoute(route)
  /\ UNCHANGED <<component, service>>

\* the guard !userRoute in the place of !userRoute.trim()
submitRoute_noTrim ==
  /\ call = "useGame"
  /\ pc' = "submitRoute"
  /\ IF Len(userRoute.value) = 0
     THEN /\ error' = msgEnterRoute
          /\ UNCHANGED <<gameState, gameData>>
     ELSE /\ gameData.attempts < MaxAttempts
          /\ gameState' = "calculating"
          /\ gameData' = [gameData EXCEPT !.attempts = @ + 1]
          /\ UNCHANGED error
  /\ UNCHANGED <<userRoute, googleRoute, startPoint, endPoint, score, now>>
  /\ UNCHANGED callVars

submitRoute ==
  /\ call = "useGame"
  /\ pc' = "submitRoute"
  /\ IF Len(trim(userRoute.value)) = 0
     THEN /\ error' = msgEnterRoute
          /\ UNCHANGED <<gameState, gameData>>
     ELSE /\ gameData.attempts < MaxAttempts
          /\ gameState' = "calculating"
          /\ gameData' = [gameData EXCEPT !.attempts = @ + 1]
          /\ UNCHANGED error
  /\ UNCHANGED <<userRoute, googleRoute, startPoint, endPoint, score, now>>
  /\ UNCHANGED callVars

setGoogleRouteResult(route) ==
  /\ call = "useGame"
  /\ pc' = "setGoogleRouteResult"
  /\ googleRoute' = route
  /\ UNCHANGED <<userRoute, gameState, startPoint, endPoint, score, error, gameData, now>>
  /\ UNCHANGED callVars

SetGoogleRouteResult ==
  /\ \E route \in HookGoogleRoutes : setGoogleRouteResult(route)
  /\ UNCHANGED <<component, service>>

\* the score set and the state moved, the end time left as it was
setGameScore_noEndTime(calculatedScore) ==
  /\ call = "useGame"
  /\ pc' = "setGameScore"
  /\ score' = calculatedScore
  /\ gameState' = "results"
  /\ UNCHANGED <<userRoute, googleRoute, startPoint, endPoint, error, gameData, now>>
  /\ UNCHANGED callVars

setGameScore(calculatedScore) ==
  /\ call = "useGame"
  /\ pc' = "setGameScore"
  /\ score' = calculatedScore
  /\ gameData' = [gameData EXCEPT !.endTime = newDate]
  /\ gameState' = "results"
  /\ UNCHANGED <<userRoute, googleRoute, startPoint, endPoint, error, now>>
  /\ UNCHANGED callVars

SetGameScore ==
  /\ \E calculatedScore \in HookScores : setGameScore(calculatedScore)
  /\ UNCHANGED <<component, service>>

handleError(errorMessage) ==
  /\ call = "useGame"
  /\ pc' = "handleError"
  /\ error' = errorMessage
  /\ gameState' = "error"
  /\ UNCHANGED <<userRoute, googleRoute, startPoint, endPoint, score, gameData, now>>
  /\ UNCHANGED callVars

HandleError ==
  /\ \E errorMessage \in ErrorMessages : handleError(errorMessage)
  /\ UNCHANGED <<component, service>>

\* a reset that forgets to clear the two points
resetGame_keepsPoints ==
  /\ call = "useGame"
  /\ pc' = "resetGame"
  /\ gameState' = "idle"
  /\ userRoute' = JSString(<<>>)
  /\ googleRoute' = JSNull
  /\ score' = 0
  /\ error' = JSNull
  /\ gameData' = [startTime |-> JSNull, endTime |-> JSNull, attempts |-> 0]
  /\ UNCHANGED <<startPoint, endPoint, now>>
  /\ UNCHANGED callVars

resetGame ==
  /\ call = "useGame"
  /\ pc' = "resetGame"
  /\ gameState' = "idle"
  /\ startPoint' = JSNull
  /\ endPoint' = JSNull
  /\ userRoute' = JSString(<<>>)
  /\ googleRoute' = JSNull
  /\ score' = 0
  /\ error' = JSNull
  /\ gameData' = [startTime |-> JSNull, endTime |-> JSNull, attempts |-> 0]
  /\ UNCHANGED now
  /\ UNCHANGED callVars

\* a new round that clears the two points as resetGame does
startNewRound_clearsPoints ==
  /\ call = "useGame"
  /\ pc' = "startNewRound"
  /\ startPoint' = JSNull
  /\ endPoint' = JSNull
  /\ userRoute' = JSString(<<>>)
  /\ googleRoute' = JSNull
  /\ score' = 0
  /\ error' = JSNull
  /\ gameData' = [startTime |-> newDate, endTime |-> JSNull, attempts |-> 0]
  /\ gameState' = "mapLoaded"
  /\ UNCHANGED now
  /\ UNCHANGED callVars

startNewRound ==
  /\ call = "useGame"
  /\ pc' = "startNewRound"
  /\ userRoute' = JSString(<<>>)
  /\ googleRoute' = JSNull
  /\ score' = 0
  /\ error' = JSNull
  /\ gameData' = [startTime |-> newDate, endTime |-> JSNull, attempts |-> 0]
  /\ gameState' = "mapLoaded"
  /\ UNCHANGED <<startPoint, endPoint, now>>
  /\ UNCHANGED callVars

\* the clock counts half seconds; Date.prototype.getTime() is in milliseconds
getTime(date) == date.value * 500

\* getGameDuration, when new Date() is read at the clock value at
getGameDuration(at) ==
  IF gameData.startTime = JSNull THEN 0
  ELSE LET endTime == IF gameData.endTime = JSNull THEN JSDate(at) ELSE gameData.endTime
       IN (getTime(endTime) - getTime(gameData.startTime)) \div 1000

canSubmitRoute == gameState = "routeInput" /\ Len(trim(userRoute.value)) > 0

getGameStats(at) ==
  [duration |-> getGameDuration(at),
   attempts |-> gameData.attempts,
   score |-> score,
   hasStarted |-> gameData.startTime # JSNull,
   hasEnded |-> gameData.endTime # JSNull]

\* the callbacks without arguments, called by a component that changes
\* nothing else
StartRouteInput == startRouteInput /\ UNCHANGED <<component, service>>

SubmitRoute == submitRoute /\ UNCHANGED <<component, service>>

ResetGame == resetGame /\ UNCHANGED <<component, service>>

StartNewRound == startNewRound /\ UNCHANGED <<component, service>>

GameNext ==
  \/ Tick
  \/ InitializeGame
  \/ StartRouteInput
  \/ UpdateUserRoute
  \/ SubmitRoute
  \/ SetGoogleRouteResult
  \/ SetGameScore
  \/ HandleError
  \/ ResetGame
  \/ StartNewRound

GameSpec == InitUseGame /\ [][GameNext]_vars

(***************************************************************************)
(* The MapsService singleton: one action for each method, and for each     *)
(* way the load that initialize awaits can end. The callers of initialize  *)
(* are the effects of the Map component, which call it again while an      *)
(* earlier call is still at its await.                                     *)
(***************************************************************************)
thrown(message) == [type |-> "throw", message |-> message]

returned(value) == [type |-> "return", value |-> value]

googleMapsMap == [type |-> "object", class |-> "Map"]

googleMapsMarker == [type |-> "object", class |-> "Marker"]

googleMapsDirectionsService == [type |-> "object", class |-> "DirectionsService"]

\* a DirectionsRenderer, with the map and the directions set on it
googleMapsDirectionsRenderer(map, directions) ==
  [type |-> "object", class |-> "DirectionsRenderer", map |-> map, directions |-> directions]

\* the routes that are displayed or returned
ServiceRoutes == HookGoogleRoutes

DirectionsFailures == {"Directions request failed: ZERO_RESULTS"}

\* every variable but the service
notService ==
  <<call, userRoute, googleRoute, instruction, args, pc, userRouteNormalized, googleSteps,
    result, direction, returnValue, gameState, startPoint, endPoint, score, error, gameData,
    now, component>>

InitMapsService ==
  /\ call = "MapsService"
  /\ pc = "exported"
  /\ service = mapsServiceExport
  /\ component = noComponent
  /\ userRoute = JSNull
  /\ googleRoute = JSNull
  /\ useGameInitial
  /\ now = 0
  /\ instruction = <<>>
  /\ args = noArgs
  /\ userRouteNormalized = JSUndefined
  /\ googleSteps = <<>>
  /\ result = JSUndefined
  /\ direction = <<>>
  /\ returnValue = JSUndefined

\* the global google exists once a load has completed
googleDefined == service.loadsCompleted > 0

\* initialize, up to its return or its await
initialize(caller) ==
  /\ call = "MapsService"
  /\ service.initialize[caller] = "idle"
  /\ IF service.fields.isLoaded
     THEN service' = [service EXCEPT !.initialize[caller] = "returned",
                                     !.operation = "initialize",
                                     !.outcome = returned(JSUndefined)]
     ELSE service' = [service EXCEPT !.fields.loader = [type |-> "object", class |-> "Loader",
                                                         id |-> service.loadersCreated + 1],
                                     !.loadersCreated = @ + 1,
                                     !.loadsStarted = @ + 1,
                                     !.initialize[caller] = "loading",
                                     !.operation = "initialize",
                                     !.outcome = JSUndefined]
  /\ UNCHANGED notService

Initialize == \E caller \in Callers : initialize(caller)

\* the load resolves and initialize continues after its await
loadResolves(caller) ==
  /\ call = "MapsService"
  /\ service.initialize[caller] = "loading"
  /\ service' = [service EXCEPT !.fields.isLoaded = TRUE,
                                !.loadsCompleted = @ + 1,
                                !.initialize[caller] = "returned",
                                !.operation = "initialize",
                                !.outcome = returned(JSUndefined)]
  /\ UNCHANGED notService

LoadResolves == \E caller \in Callers : loadResolves(caller)

\* the load rejects and initialize rejects with it
loadRejects(caller) ==
  /\ call = "MapsService"
  /\ service.initialize[caller] = "loading"
  /\ service' = [service EXCEPT !.initialize[caller] = "threw",
                                !.operation = "initialize",
                                !.outcome = thrown("Failed to load Google Maps")]
  /\ UNCHANGED notService

LoadRejects == \E caller \in Callers : loadRejects(caller)

createMap ==
  /\ call = "MapsService"
  /\ IF googleDefined
     THEN service' = [service EXCEPT !.fields.map = googleMapsMap,
                                     !.operation = "createMap",
                                     !.outcome = returned(googleMapsMap)]
     ELSE service' = [service EXCEPT !.operation = "createMap",
                                     !.outcome = thrown("google is not defined")]
  /\ UNCHANGED notService

addMarker ==
  /\ call = "MapsService"
  /\ IF service.fields.map = JSNull
     THEN service' = [service EXCEPT !.operation = "addMarker",
                                     !.outcome = thrown("Map not initialized")]
     ELSE service' = [service EXCEPT !.operation = "addMarker",
                                     !.outcome = returned(googleMapsMarker)]
  /\ UNCHANGED notService

\* the fields after initializeDirections has run to its end
directionsInitialized(fields) ==
  [fields EXCEPT !.directionsService = googleMapsDirectionsService,
                 !.directionsRenderer = googleMapsDirectionsRenderer(fields.map, JSNull)]

\* initializeDirections without the test of isLoaded
initializeDirections_noGuard ==
  /\ call = "MapsService"
  /\ service' = [service EXCEPT !.fields = directionsInitialized(service.fields),
                                !.operation = "initializeDirections",
                                !.outcome = returned(JSUndefined)]
  /\ UNCHANGED notService

initializeDirections ==
  /\ call = "MapsService"
  /\ IF ~service.fields.isLoaded
     THEN service' = [service EXCEPT !.operation = "initializeDirections",
                                     !.outcome = thrown("Maps API not loaded")]
     ELSE service' = [service EXCEPT !.fields = directionsInitialized(service.fields),
                                     !.operation = "initializeDirections",
                                     !.outcome = returned(JSUndefined)]
  /\ UNCHANGED notService

\* calculateRoute, to the settling of the promise it returns
calculateRoute ==
  /\ call = "MapsService"
  /\ IF service.fields.directionsService = JSNull /\ ~service.fields.isLoaded
     THEN service' = [service EXCEPT !.operation = "calculateRoute",
                                     !.outcome = thrown("Maps API not loaded")]
     ELSE \E settled \in {returned(route) : route \in ServiceRoutes}
                           \cup {thrown(failure) : failure \in DirectionsFailures} :
            service' = [service EXCEPT !.fields = IF service.fields.directionsService = JSNull
                                                  THEN directionsInitialized(service.fields)
                                                  ELSE service.fields,
                                       !.operation = "calculateRoute",
                                       !.outcome = settled]
  /\ UNCHANGED notService

displayRoute(route) ==
  /\ call = "MapsService"
  /\ IF service.fields.directionsRenderer = JSNull /\ ~service.fields.isLoaded
     THEN service' = [service EXCEPT !.operation = "displayRoute",
                                     !.outcome = thrown("Maps API not loaded")]
     ELSE LET fields == IF service.fields.directionsRenderer = JSNull
                        THEN directionsInitialized(service.fields)
                        ELSE service.fields
          IN service' = [service EXCEPT !.fields = [fields EXCEPT !.directionsRenderer.directions = route],
                                        !.operation = "displayRoute",
                                        !.outcome = returned(JSUndefined)]
  /\ UNCHANGED notService

DisplayRoute == \E route \in ServiceRoutes : displayRoute(route)

clearRoute ==
  /\ call = "MapsService"
  /\ IF service.fields.directionsRenderer # JSNull
     THEN service' = [service EXCEPT !.fields.directionsRenderer.directions = Reference(<<>>),
                                     !.operation = "clearRoute",
                                     !.outcome = returned(JSUndefined)]
     ELSE service' = [service EXCEPT !.operation = "clearRoute",
                                     !.outcome = returned(JSUndefined)]
  /\ UNCHANGED notService

MapsNext ==
  \/ Initialize
  \/ LoadResolves
  \/ LoadRejects
  \/ createMap
  \/ addMarker
  \/ initializeDirections
  \/ calculateRoute
  \/ DisplayRoute
  \/ clearRoute

MapsSpec == InitMapsService /\ [][MapsNext]_vars

(***************************************************************************)
(* The Game component: the hook, the component's own state, and one action *)
(* for each effect, event handler, promise continuation and timer. Every   *)
(* action that sets state is followed by a render. The object useGame      *)
(* returns and the two handlers passed to Map are created anew by every    *)
(* render, so the effects that list them as dependencies run again after   *)
(* every render; they are the pending effects of the component. The        *)
(* updates one handler makes are rendered together.                        *)
(***************************************************************************)
\* the default props, in ten-thousandths of a degree
initialStartPoint == [type |-> "object", lat |-> 520907, lng |-> 51214]

initialEndPoint == [type |-> "object", lat |-> 520799, lng |-> 51265]

\* import.meta.env.VITE_GOOGLE_MAPS_API_KEY, set or not
ApiKeys == {JSUndefined, JSString(<<"k","e","y">>)}

msgRouteFailed == JSString(<<"F","a","i","l","e","d"," ","t","o"," ","c","a","l","c","u","l","a","t","e"," ","r","o","u","t","e","."," ","P","l","e","a","s","e"," ","t","r","y"," ","a","g","a","i","n",".">>)

msgMapFailed == JSString(<<"M","a","p"," ","l","o","a","d","i","n","g"," ","f","a","i","l","e","d",":"," ","F","a","i","l","e","d"," ","t","o"," ","l","o","a","d"," ","G","o","o","g","l","e"," ","M","a","p","s">>)

\* Game returns early in these two states and renders Map in all others
mapRendered(state) == state \notin {"idle", "error"}

routeInputRendered(state) == state \in {"routeInput", "calculating"}

\* the effects whose dependencies a render of Game in the state has changed
effectsAfterRender(state) ==
  {"Game.useEffect"} \cup (IF mapRendered(state) THEN {"Map.useEffect"} ELSE {})

InitGame ==
  /\ call = "useGame"
  /\ pc = "mounted"
  /\ userRoute = JSString(<<>>)
  /\ googleRoute = JSNull
  /\ useGameInitial
  /\ now = 0
  /\ \E key \in ApiKeys :
       component = [mounted |-> TRUE,
                    apiKey |-> key,
                    isCalculating |-> FALSE,
                    scoreResult |-> JSNull,
                    request |-> JSNull,
                    initializeMap |-> FALSE,
                    resetTimer |-> FALSE,
                    effects |-> effectsAfterRender("idle"),
                    handler |-> "mount"]
  /\ service = mapsServiceExport
  /\ instruction = <<>>
  /\ args = noArgs
  /\ userRouteNormalized = JSUndefined
  /\ googleSteps = <<>>
  /\ result = JSUndefined
  /\ direction = <<>>
  /\ returnValue = JSUndefined

\* the initialization effect of Game
GameUseEffect ==
  /\ component.mounted
  /\ "Game.useEffect" \in component.effects
  /\ IF ~Falsy(component.apiKey)
     THEN /\ initializeGame(initialStartPoint, initialEndPoint)
          /\ component' = [component EXCEPT !.effects = effectsAfterRender(gameState'),
                                            !.handler = "Game.useEffect"]
     ELSE /\ component' = [component EXCEPT !.effects = @ \ {"Game.useEffect"},
                                            !.handler = "Game.useEffect"]
          /\ UNCHANGED <<userRoute, googleRoute, pc, gameState, startPoint, endPoint, score,
                         error, gameData, now>>
          /\ UNCHANGED callVars
  /\ UNCHANGED service

\* the initialization effect of Map: it starts initializeMap, which awaits
\* mapsService.initialize
MapUseEffect ==
  /\ component.mounted
  /\ "Map.useEffect" \in component.effects
  /\ mapRendered(gameState)
  /\ component' = [component EXCEPT !.effects = @ \ {"Map.useEffect"},
                                    !.initializeMap = IF ~Falsy(component.apiKey) THEN TRUE ELSE @,
                                    !.handler = "Map.useEffect"]
  /\ UNCHANGED <<userRoute, googleRoute, pc, gameState, startPoint, endPoint, score, error,
                 gameData, now>>
  /\ UNCHANGED callVars
  /\ UNCHANGED service

\* initializeMap gets its map and calls onMapReady
handleMapReady ==
  /\ component.mounted
  /\ component.initializeMap
  /\ startRouteInput
  /\ component' = [component EXCEPT !.initializeMap = FALSE,
                                    !.effects = effectsAfterRender(gameState'),
                                    !.handler = "handleMapReady"]
  /\ UNCHANGED service

\* initializeMap catches an error and calls onError
handleMapError ==
  /\ component.mounted
  /\ component.initializeMap
  /\ handleError(msgMapFailed)
  /\ component' = [component EXCEPT !.initializeMap = FALSE,
                                    !.effects = effectsAfterRender(gameState'),
                                    !.handler = "handleMapError"]
  /\ UNCHANGED service

\* the user edits the text of RouteInput
handleInputChange ==
  /\ component.mounted
  /\ routeInputRendered(gameState)
  /\ ~component.isCalculating
  /\ \E route \in HookUserRoutes \ {userRoute} : updateUserRoute(route)
  /\ component' = [component EXCEPT !.effects = effectsAfterRender(gameState'),
                                    !.handler = "handleInputChange"]
  /\ UNCHANGED service

\* handleRouteSubmit up to its await, called by RouteInput.handleSubmit
handleRouteSubmit ==
  /\ component.mounted
  /\ routeInputRendered(gameState)
  /\ Len(trim(userRoute.value)) > 0
  /\ ~component.isCalculating
  /\ canSubmitRoute
  /\ submitRoute
  /\ component' = [component EXCEPT !.isCalculating = TRUE,
                                    !.request = [type |-> "object",
                                                 origin |-> startPoint,
                                                 destination |-> endPoint,
                                                 userRoute |-> userRoute],
                                    !.effects = effectsAfterRender(gameState'),
                                    !.handler = "handleRouteSubmit"]
  /\ UNCHANGED service

\* the continuation of handleRouteSubmit without its finally block
routeResolved_noFinally(route) ==
  /\ component.mounted
  /\ component.request # JSNull
  /\ pc' = "setGameScore"
  /\ googleRoute' = route
  /\ score' = calculateScore(component.request.userRoute, route).score
  /\ gameData' = [gameData EXCEPT !.endTime = newDate]
  /\ gameState' = "results"
  /\ component' = [component EXCEPT !.scoreResult = calculateScore(component.request.userRoute, route),
                                    !.request = JSNull,
                                    !.effects = effectsAfterRender("results"),
                                    !.handler = "handleRouteSubmit.resolved"]
  /\ UNCHANGED <<userRoute, startPoint, endPoint, error, now>>
  /\ UNCHANGED callVars
  /\ UNCHANGED service

\* the directions request resolves: the continuation of handleRouteSubmit,
\* with the route and the points of the render that submitted
routeResolved(route) ==
  /\ component.mounted
  /\ component.request # JSNull
  /\ googleRoute' = route
  /\ IF calculateScoreThrows(component.request.userRoute, route)
     THEN /\ pc' = "handleError"
          /\ error' = msgRouteFailed
          /\ gameState' = "error"
          /\ component' = [component EXCEPT !.isCalculating = FALSE,
                                            !.request = JSNull,
                                            !.effects = effectsAfterRender("error"),
                                            !.handler = "handleRouteSubmit.rejected"]
          /\ UNCHANGED <<score, gameData>>
     ELSE /\ pc' = "setGameScore"
          /\ score' = calculateScore(component.request.userRoute, route).score
          /\ gameData' = [gameData EXCEPT !.endTime = newDate]
          /\ gameState' = "results"
          /\ component' = [component EXCEPT !.scoreResult =
                                               calculateScore(component.request.userRoute, route),
                                            !.isCalculating = FALSE,
                                            !.request = JSNull,
                                            !.effects = effectsAfterRender("results"),
                                            !.handler = "handleRouteSubmit.resolved"]
          /\ UNCHANGED error
  /\ UNCHANGED <<userRoute, startPoint, endPoint, now>>
  /\ UNCHANGED callVars
  /\ UNCHANGED service

RouteResolved == \E route \in HookGoogleRoutes : routeResolved(route)

\* the directions request rejects: the catch block of handleRouteSubmit
RouteRejected ==
  /\ component.mounted
  /\ component.request # JSNull
  /\ handleError(msgRouteFailed)
  /\ component' = [component EXCEPT !.isCalculating = FALSE,
                                    !.request = JSNull,
                                    !.effects = effectsAfterRender(gameState'),
                                    !.handler = "handleRouteSubmit.rejected"]
  /\ UNCHANGED service

\* the button Try Again of the results
handleNewRound ==
  /\ component.mounted
  /\ gameState = "results" /\ component.scoreResult # JSNull
  /\ startNewRound
  /\ component' = [component EXCEPT !.scoreResult = JSNull,
                                    !.effects = effectsAfterRender(gameState'),
                                    !.handler = "handleNewRound"]
  /\ UNCHANGED service

\* the button New Game of the results, and the button of the error screen
handleResetGame ==
  /\ component.mounted
  /\ \/ gameState = "results" /\ component.scoreResult # JSNull
     \/ gameState = "error"
  /\ resetGame
  /\ component' = [component EXCEPT !.scoreResult = JSNull,
                                    !.resetTimer = TRUE,
                                    !.effects = effectsAfterRender(gameState'),
                                    !.handler = "handleResetGame"]
  /\ UNCHANGED service

\* the timer that handleResetGame set
ResetTimeout ==
  /\ component.mounted
  /\ component.resetTimer
  /\ initializeGame(initialStartPoint, initialEndPoint)
  /\ component' = [component EXCEPT !.resetTimer = FALSE,
                                    !.effects = effectsAfterRender(gameState'),
                                    !.handler = "setTimeout"]
  /\ UNCHANGED service

ComponentNext ==
  \/ Tick
  \/ GameUseEffect
  \/ MapUseEffect
  \/ handleMapReady
  \/ handleMapError
  \/ handleInputChange
  \/ handleRouteSubmit
  \/ RouteResolved
  \/ RouteRejected
  \/ handleNewRound
  \/ handleResetGame
  \/ ResetTimeout

ComponentSpec == InitGame /\ [][ComponentNext]_vars

(***************************************************************************)
(* Properties                                                              *)
(***************************************************************************)
\* calculateScore has returned from a call that passed its early return
Scored ==
  /\ call = "calculateScore"
  /\ pc = "returned"
  /\ userRoute.type = "string" /\ Len(userRoute.value) > 0
  /\ googleRoute.type = "object"

\* a fraction n/d lies in [0,100]
InPercentRange(r) == r.d > 0 /\ 0 <= r.n /\ r.n <= 100 * r.d

\* C1: when the user route text is empty or absent, or the reference route is
\* absent, calculateScore returns score 0, maxScore 100, the four sub-scores 0
\* and an empty feedback list, whatever the other argument is.
C1_DegenerateInputScoresZero ==
  (/\ call = "calculateScore"
   /\ pc # "call"
   /\ \/ userRoute.type \in {"null", "undefined"}
      \/ userRoute.type = "string" /\ Len(userRoute.value) = 0
      \/ googleRoute.type \in {"null", "undefined"})
  => /\ pc = "returned"
     /\ result.score = 0
     /\ result.maxScore = 100
     /\ result.breakdown.routeMatch.n = 0
     /\ result.breakdown.directionAccuracy.n = 0
     /\ result.breakdown.landmarkMention = 0
     /\ result.breakdown.completeness = 0
     /\ Len(result.feedback) = 0

\* a text that names a street and a landmark is scored against an absent reference
C1_Witness ==
  /\ call = "calculateScore"
  /\ pc = "returned"
  /\ userRoute = JSString(<<"S","t","r","e","e","t"," ","p","a","r","k">>)
  /\ googleRoute = JSNull
  /\ result.score = 0

\* C2: for every user route text and every reference route the result has an
\* integer score in [0,100], maxScore 100 and each of routeMatch,
\* directionAccuracy, landmarkMention and completeness in [0,100].
C2_ScoresWithinRange ==
  (call = "calculateScore" /\ pc = "returned")
  => /\ result.score \in 0..100
     /\ result.maxScore = 100
     /\ InPercentRange(result.breakdown.routeMatch)
     /\ InPercentRange(result.breakdown.directionAccuracy)
     /\ result.breakdown.landmarkMention \in 0..100
     /\ result.breakdown.completeness \in 0..100

\* a scored text with landmarkMention at its ceiling and a positive score
C2_Witness ==
  /\ Scored
  /\ result.breakdown.landmarkMention = 100
  /\ result.breakdown.completeness > 0
  /\ result.score >= 20

\* C3: routeMatch equals 100 * (number of user streets that also occur in the
\* reference street set) / max(|userStreets|, |referenceStreets|), where
\* referenceStreets is the union, as a set, of the streets extracted from every
\* reference step's instruction: a street named in several steps counts once.
C3_RouteMatchOverStreetSets ==
  Scored =>
    LET userStreets == Range(userRouteNormalized.streets)
        referenceStreets == UNION {Range(extractStreets(googleSteps[k].instruction)) :
                                     k \in DOMAIN googleSteps}
        common == Cardinality(userStreets \cap referenceStreets)
        denominator == Max(Cardinality(userStreets), Cardinality(referenceStreets))
        routeMatch == result.breakdown.routeMatch
    IN IF denominator = 0 THEN routeMatch.n = 0
       ELSE routeMatch.n * denominator = 100 * common * routeMatch.d

\* C4: directionAccuracy equals 100 * |userDirections \cap referenceDirections|
\* / max(|userDirections|, |referenceDirections|), where referenceDirections is
\* the set of the steps' canonical directions (a direction shared by several
\* steps counts once), and is 0 when that denominator is 0.
C4_DirectionAccuracyOverDirectionSets ==
  Scored =>
    LET userDirections == Range(userRouteNormalized.directions)
        referenceDirections == {googleSteps[k].direction : k \in DOMAIN googleSteps}
        common == Cardinality(userDirections \cap referenceDirections)
        denominator == Max(Cardinality(userDirections), Cardinality(referenceDirections))
        directionAccuracy == result.breakdown.directionAccuracy
    IN IF denominator = 0 THEN directionAccuracy.n = 0
       ELSE directionAccuracy.n * denominator = 100 * common * directionAccuracy.d

\* C5: when the streets and the directions extracted from the user text are,
\* as sets, equal to the streets and canonical directions extracted from the
\* reference steps (both non-empty), routeMatch = 100 and directionAccuracy =
\* 100, for any number of reference steps.
C5_IdentityCaseScoresFull ==
  (/\ Scored
   /\ Range(userRouteNormalized.streets) # {}
   /\ Range(userRouteNormalized.directions) # {}
   /\ Range(userRouteNormalized.streets)
        = UNION {Range(extractStreets(googleSteps[k].instruction)) : k \in DOMAIN googleSteps}
   /\ Range(userRouteNormalized.directions)
        = {googleSteps[k].direction : k \in DOMAIN googleSteps})
  => /\ result.breakdown.routeMatch.n = 100 * result.breakdown.routeMatch.d
     /\ result.breakdown.directionAccuracy.n = 100 * result.breakdown.directionAccuracy.d

\* C6 as stated: "Go north on Main Street" scored against the single step
\* "Head north on Main Street" has routeMatch = 100 and directionAccuracy = 100.
C6_ScenarioAFullDirectionAccuracy ==
  (/\ call = "calculateScore"
   /\ pc = "returned"
   /\ userRoute = JSString(<<"G","o"," ","n","o","r","t","h"," ","o","n"," ","M","a","i","n"," ","S","t","r","e","e","t">>)
   /\ googleRoute = GoogleRouteOf(<<<<"H","e","a","d"," ","n","o","r","t","h"," ","o","n"," ","M","a","i","n"," ","S","t","r","e","e","t">>>>))
  => /\ result.breakdown.routeMatch.n = 100 * result.breakdown.routeMatch.d
     /\ result.breakdown.directionAccuracy.n = 100 * result.breakdown.directionAccuracy.d

\* C6 amended: "Go north on Main Street" scored against the single step
\* "Head north on Main Street" has routeMatch = 100 and directionAccuracy = 50:
\* the text holds the two direction words "north" and "go", and only "north" is
\* the direction of a step.
C6_ScenarioAHalfDirectionAccuracy ==
  (/\ call = "calculateScore"
   /\ pc = "returned"
   /\ userRoute = JSString(<<"G","o"," ","n","o","r","t","h"," ","o","n"," ","M","a","i","n"," ","S","t","r","e","e","t">>)
   /\ googleRoute = GoogleRouteOf(<<<<"H","e","a","d"," ","n","o","r","t","h"," ","o","n"," ","M","a","i","n"," ","S","t","r","e","e","t">>>>))
  => /\ userRouteNormalized.directions = <<<<"n","o","r","t","h">>, <<"g","o">>>>
     /\ result.breakdown.routeMatch.n = 100 * result.breakdown.routeMatch.d
     /\ result.breakdown.directionAccuracy.n * 2 = 100 * result.breakdown.directionAccuracy.d

\* scenario A has been scored
C6_Witness ==
  /\ call = "calculateScore"
  /\ pc = "returned"
  /\ userRoute = JSString(<<"G","o"," ","n","o","r","t","h"," ","o","n"," ","M","a","i","n"," ","S","t","r","e","e","t">>)
  /\ googleRoute = GoogleRouteOf(<<<<"H","e","a","d"," ","n","o","r","t","h"," ","o","n"," ","M","a","i","n"," ","S","t","r","e","e","t">>>>)
  /\ Len(googleSteps) = 1
  /\ googleSteps[1].direction = <<"n","o","r","t","h">>

C8_DirectionByFirstMatch ==
  LET rules == << <<{<<"l","e","f","t">>}, <<"l","e","f","t">>>>,
                  <<{<<"r","i","g","h","t">>}, <<"r","i","g","h","t">>>>,
                  <<{<<"s","t","r","a","i","g","h","t">>, <<"c","o","n","t","i","n","u","e">>}, <<"s","t","r","a","i","g","h","t">>>>,
                  <<{<<"n","o","r","t","h">>}, <<"n","o","r","t","h">>>>,
                  <<{<<"s","o","u","t","h">>}, <<"s","o","u","t","h">>>>,
                  <<{<<"e","a","s","t">>}, <<"e","a","s","t">>>>,
                  <<{<<"w","e","s","t">>}, <<"w","e","s","t">>>> >>
      matching(text) == {i \in 1..Len(rules) : \E w \in rules[i][1] : includes(text, w)}
      expected(text) ==
        IF matching(text) = {} THEN <<"u","n","k","n","o","w","n">>
        ELSE rules[CHOOSE i \in matching(text) : \A j \in matching(text) : i <= j][2]
      hasTurnAndCardinal(text) == matching(text) \cap {1, 2, 3} # {} /\ matching(text) \cap {4, 5, 6, 7} # {}
      cardinals == {<<"n","o","r","t","h">>, <<"s","o","u","t","h">>, <<"e","a","s","t">>, <<"w","e","s","t">>}
      correct(raw, dir) ==
        LET text == toLowerCase(removeHtmlTags(raw))
        IN dir = expected(text) /\ (hasTurnAndCardinal(text) => dir \notin cardinals)
  IN /\ (call = "extractDirectionFromInstruction" /\ pc = "returned")
          => correct(instruction, direction)
     /\ Scored
          => \A k \in DOMAIN googleSteps :
               correct(firstLeg(googleRoute).steps.items[k].instructions, googleSteps[k].direction)

\* "Turn left onto North Street" has resolved to left
C8_Witness ==
  /\ call = "extractDirectionFromInstruction"
  /\ pc = "returned"
  /\ instruction = <<"T","u","r","n"," ","l","e","f","t"," ","o","n","t","o"," ","N","o","r","t","h"," ","S","t","r","e","e","t">>
  /\ direction = <<"l","e","f","t">>

\* C9: landmarkMention depends only on the number of distinct landmark words
\* found in the user text: 0 for none, 40 for one, 70 for two, 100 for three or
\* more, whatever the streets, the directions and the reference route are.
C9_LandmarkStepFunction ==
  Scored =>
    LET found == {w \in Range(landmarkWords) : includes(toLowerCase(userRoute.value), w)}
        expected == CASE Cardinality(found) = 0 -> 0
                      [] Cardinality(found) = 1 -> 40
                      [] Cardinality(found) = 2 -> 70
                      [] OTHER -> 100
    IN result.breakdown.landmarkMention = expected

\* a text with four landmark words, scored against a reference with steps
C9_Witness ==
  /\ Scored
  /\ Len(userRouteNormalized.landmarks) = 4
  /\ Len(googleSteps) > 0
  /\ result.breakdown.landmarkMention = 100

\* C10: completeness = min(100, W + 20*[any direction] + 20*[any street]
\* + 20*[any landmark] + 10*[any distance token]) with W = 30 for 50 words or
\* more, else 20 for 30 or more, else 10 for 15 or more, else 0; it does not
\* depend on the reference, and is 0 for fewer than 15 words without
\* directions, streets, landmarks and distances.
C10_CompletenessRubric ==
  Scored =>
    LET n == userRouteNormalized
        W == CASE n.wordCount >= 50 -> 30
               [] n.wordCount \in 30..49 -> 20
               [] n.wordCount \in 15..29 -> 10
               [] OTHER -> 0
        anyDirection == \E w \in Range(directionWords) : includes(n.cleaned, w)
        anyStreet == Len(n.streets) > 0
        anyLandmark == \E w \in Range(landmarkWords) : includes(n.cleaned, w)
        anyDistance == Len(n.distances) > 0
        details == (IF anyDirection THEN 20 ELSE 0) + (IF anyStreet THEN 20 ELSE 0)
                   + (IF anyLandmark THEN 20 ELSE 0) + (IF anyDistance THEN 10 ELSE 0)
    IN /\ result.breakdown.completeness = Min(100, W + details)
       /\ (n.wordCount < 15 /\ details = 0) => result.breakdown.completeness = 0

\* fifty words or more with all four details: completeness is 100
C10_Witness ==
  /\ Scored
  /\ userRouteNormalized.wordCount >= 50
  /\ Len(userRouteNormalized.distances) > 0
  /\ result.breakdown.completeness = 100

\* the six corrective messages in the order of their conditions
correctiveMessages ==
  <<msgRouteMatch, msgDirectionAccuracy, msgLandmarkMention, msgCompleteness, msgShort,
    msgNoDirections>>

\* the six conditions, read from the arguments generateFeedback was given
correctiveConditions(breakdown, normalized) ==
  <<lessThan(breakdown.routeMatch, 50),
    lessThan(breakdown.directionAccuracy, 50),
    breakdown.landmarkMention < 50,
    breakdown.completeness < 50,
    normalized.wordCount < 20,
    Len(normalized.directions) = 0>>

\* every message whose condition holds, none whose condition fails, each at
\* most once, in the order of the conditions
EmitsExactlyTheHolding(feedback, conditions) ==
  /\ \A i \in 1..6 :
       /\ conditions[i] <=> (\E k \in 1..Len(feedback) : feedback[k] = correctiveMessages[i])
       /\ Cardinality({k \in 1..Len(feedback) : feedback[k] = correctiveMessages[i]}) <= 1
  /\ \A k \in 1..Len(feedback) : \A l \in 1..Len(feedback) :
       k < l => \E i \in 1..6 : \E j \in 1..6 :
                  i < j /\ feedback[k] = correctiveMessages[i] /\ feedback[l] = correctiveMessages[j]

\* C11: generateFeedback evaluates its six conditions independently: each
\* corrective message is in the list exactly when its own condition holds, at
\* most once, and the messages keep the order routeMatch, directionAccuracy,
\* landmarkMention, completeness, wordCount, no directions. It holds for the
\* direct calls and for the calls calculateScore makes.
C11_FeedbackEmitsEveryHoldingCondition ==
  /\ (call = "generateFeedback" /\ pc = "returned")
       => EmitsExactlyTheHolding(returnValue, correctiveConditions(args.breakdown, args.userRoute))
  /\ Scored
       => EmitsExactlyTheHolding(result.feedback,
                                 correctiveConditions(result.breakdown, userRouteNormalized))

\* a direct call where the conditions 2, 4 and 6 hold and 1, 3 and 5 do not:
\* neither a failing earlier condition nor a holding one silences a later one
C11_Witness ==
  /\ call = "generateFeedback" /\ pc = "returned"
  /\ correctiveConditions(args.breakdown, args.userRoute)
       = <<FALSE, TRUE, FALSE, TRUE, FALSE, TRUE>>
  /\ returnValue = <<msgDirectionAccuracy, msgCompleteness, msgNoDirections>>

\* C12: a calculateScore call that passes the early return gives a feedback
\* list that is not empty; the list is the single positive message exactly
\* when none of the six corrective conditions holds, and the positive message
\* is never in a list with a corrective one.
C12_PositiveMessageIffNoCorrective ==
  Scored =>
    LET feedback == result.feedback
        conditions == correctiveConditions(result.breakdown, userRouteNormalized)
        none == \A i \in 1..6 : ~conditions[i]
    IN /\ Len(feedback) > 0
       /\ none <=> feedback = <<msgGreatJob>>
       /\ (\E k \in 1..Len(feedback) : feedback[k] = msgGreatJob) => Len(feedback) = 1

\* a route description that clears every threshold and gets the positive message
C12_Witness ==
  /\ Scored
  /\ result.feedback = <<msgGreatJob>>
  /\ userRouteNormalized.wordCount >= 20
  /\ Len(userRouteNormalized.landmarks) >= 2

\* the number of whitespace-separated words of a text
wordsIn(s) ==
  Cardinality({i \in 1..Len(s) : ~isSpace(s[i]) /\ (i = 1 \/ isSpace(s[i - 1]))})

\* C13: the normalized route's wordCount is the number of whitespace-separated
\* words of the cleaned text, and so is 0 exactly when the cleaned text is
\* empty; a whitespace-only user text gives wordCount 0, not 1.
C13_WordCountZeroIffCleanedEmpty ==
  (call = "calculateScore" /\ pc = "returned" /\ userRouteNormalized # JSUndefined)
    => /\ userRouteNormalized.wordCount = wordsIn(userRouteNormalized.cleaned)
       /\ userRouteNormalized.wordCount = 0 <=> Len(userRouteNormalized.cleaned) = 0

\* C14: calculateScore, and normalizeRoute within it, never throws: called
\* with a user route that is not a string (a number, an object) it returns,
\* and what it returns are the zero defaults.
C14_NonStringRouteGivesDefaults ==
  (call = "calculateScore" /\ pc # "call" /\ userRoute.type \notin {"string", "null", "undefined"})
    => /\ pc = "returned"
       /\ result = zeroResult

\* a list that is absent or has no element
emptyOrAbsent(list) == list.type # "array" \/ Len(list.items) = 0

\* the reference has no alternative, or its first alternative no leg, or its
\* first leg no step
nothingToScore(reference) ==
  /\ reference.type = "object"
  /\ IF emptyOrAbsent(reference.routes) THEN TRUE
     ELSE IF emptyOrAbsent(reference.routes.items[1].legs) THEN TRUE
     ELSE emptyOrAbsent(reference.routes.items[1].legs.items[1].steps)

\* C15: extractRouteSteps never throws, and returns the empty sequence of
\* steps when the list of alternatives, the list of legs of the first
\* alternative or the list of steps of its first leg is empty or absent.
C15_ExtractRouteStepsFailsSoft ==
  (call = "extractRouteSteps" /\ pc # "call")
    => /\ pc = "returned"
       /\ nothingToScore(googleRoute) => googleSteps = <<>>

\* the characters of s from position i on that stand outside tags, when the
\* scan is inside a tag at i or not
RECURSIVE outsideTagsFrom(_, _, _)
outsideTagsFrom(s, i, inTag) ==
  IF i > Len(s) THEN <<>>
  ELSE IF inTag THEN outsideTagsFrom(s, i + 1, s[i] # ">")
  ELSE IF s[i] = "<" THEN outsideTagsFrom(s, i + 1, TRUE)
  ELSE <<s[i]>> \o outsideTagsFrom(s, i + 1, FALSE)

outsideTags(s) == outsideTagsFrom(s, 1, FALSE)

\* every '<' opens a tag that a later '>' closes, and no '>' stands outside a tag
RECURSIVE wellFormedFrom(_, _, _)
wellFormedFrom(s, i, inTag) ==
  IF i > Len(s) THEN ~inTag
  ELSE IF inTag THEN s[i] # "<" /\ wellFormedFrom(s, i + 1, s[i] # ">")
  ELSE s[i] # ">" /\ wellFormedFrom(s, i + 1, s[i] = "<")

wellFormedTags(s) == wellFormedFrom(s, 1, FALSE)

has(s, c) == \E i \in 1..Len(s) : s[i] = c

\* extractRouteSteps has returned steps, by itself or within calculateScore
StepsExtracted ==
  /\ call \in {"extractRouteSteps", "calculateScore"}
  /\ pc = "returned"
  /\ Len(googleSteps) > 0

\* the instructions of the reference as they arrived
rawInstruction(k) == firstLeg(googleRoute).steps.items[k].instructions

\* the example of the specification
exampleStripped(k) ==
  rawInstruction(k) = <<"G","o"," ","<","b",">","n","o","r","t","h","<","/","b",">"," ","o","n"," ","M","a","i","n"," ","S","t">>
    => /\ googleSteps[k].instruction = <<"g","o"," ","n","o","r","t","h"," ","o","n"," ","m","a","i","n"," ","s","t">>
       /\ googleSteps[k].direction = <<"n","o","r","t","h">>
       /\ extractStreets(googleSteps[k].instruction) = <<<<"m","a","i","n"," ","s","t">>>>

\* C16 as claimed: the stripped instruction of every step contains neither
\* '<' nor '>', and "Go <b>north</b> on Main St" becomes "go north on main st"
\* with direction north and street "main st".
C16_StrippedHasNoAngleBracket ==
  StepsExtracted =>
    \A k \in 1..Len(googleSteps) :
      /\ ~has(googleSteps[k].instruction, "<")
      /\ ~has(googleSteps[k].instruction, ">")
      /\ exampleStripped(k)

\* C16 amended: the stripped instruction of every step contains no '<'; when,
\* once the entities are decoded, the angle brackets of the instruction are
\* those of well-formed tags, it contains no '>' either and is the lowercased
\* text outside the tags in its order; the example holds as stated. (A '>'
\* outside a tag, written as such or as &gt;, stays in the instruction.)
C16_StrippedKeepsTextOutsideTags ==
  StepsExtracted =>
    \A k \in 1..Len(googleSteps) :
      LET decoded == decodeEntities(rawInstruction(k))
          stripped == googleSteps[k].instruction
      IN /\ ~has(stripped, "<")
         /\ wellFormedTags(decoded)
              => /\ ~has(stripped, ">")
                 /\ stripped = toLowerCase(outsideTags(decoded))
         /\ exampleStripped(k)

\* the example of the specification has been stripped
C16_Witness ==
  /\ call = "extractRouteSteps" /\ pc = "returned"
  /\ Len(googleSteps) = 1
  /\ rawInstruction(1) = <<"G","o"," ","<","b",">","n","o","r","t","h","<","/","b",">"," ","o","n"," ","M","a","i","n"," ","S","t">>
  /\ googleSteps[1].instruction = <<"g","o"," ","n","o","r","t","h"," ","o","n"," ","m","a","i","n"," ","s","t">>
  /\ googleSteps[1].direction = <<"n","o","r","t","h">>

\* the instructions of routes[0].legs[0].steps
scoredInstructions(reference) ==
  LET steps == reference.routes.items[1].legs.items[1].steps.items
  IN [k \in 1..Len(steps) |-> steps[k].instructions]

\* C17: the result of calculateScore depends on the reference only through
\* routes[0].legs[0].steps: a reference with further alternatives, further
\* legs or further fields gets the result of the reference that has nothing
\* but those steps, for the same user text.
C17_OnlyFirstLegStepsAreScored ==
  (Scored /\ ~nothingToScore(googleRoute))
    => result = calculateScore(userRoute, GoogleRouteOf(scoredInstructions(googleRoute)))

\* a scored call whose reference has a second alternative with its own steps
C17_Witness ==
  /\ Scored
  /\ ~nothingToScore(googleRoute)
  /\ Len(googleRoute.routes.items) = 2
  /\ ~emptyOrAbsent(googleRoute.routes.items[2].legs.items[1].steps)
  /\ result.score > 0

\* the bands from the lowest to the highest: where each starts, and the
\* description and the colour each is given
bandStarts == <<0, 50, 60, 70, 80, 90>>

bandDescriptions ==
  <<"Keep Practicing", "Needs Work", "Not Bad", "Good Navigation", "Great Job!",
    "Excellent Navigation!">>

bandColors == <<"#F44336", "#FF5722", "#FF9800", "#FFC107", "#8BC34A", "#4CAF50">>

\* the bands whose range holds the score
bandsOf(points) ==
  {b \in 1..6 : bandStarts[b] <= points /\ (b < 6 => points < bandStarts[b + 1])}

\* the bands a returned value names
bandsNamed(names, value) == {b \in 1..6 : names[b] = value}

\* C18: getScoreDescription and getScoreColor are monotone step functions of
\* the score: a score of 0..100 lies in exactly one band, the value returned
\* is that band's, and no lower score gets the value of a higher band.
C18_ScoreBandsAreMonotone ==
  /\ (call = "getScoreDescription" /\ pc = "returned")
       => /\ Cardinality(bandsOf(args.score)) = 1
          /\ bandsNamed(bandDescriptions, returnValue) = bandsOf(args.score)
          /\ \A lower \in 0..args.score :
               \A b \in bandsNamed(bandDescriptions, getScoreDescription(lower)) :
                 \A c \in bandsNamed(bandDescriptions, returnValue) : b <= c
  /\ (call = "getScoreColor" /\ pc = "returned")
       => /\ Cardinality(bandsOf(args.score)) = 1
          /\ bandsNamed(bandColors, returnValue) = bandsOf(args.score)
          /\ \A lower \in 0..args.score :
               \A b \in bandsNamed(bandColors, getScoreColor(lower)) :
                 \A c \in bandsNamed(bandColors, returnValue) : b <= c

\* the first score of a band: 70 is "Good Navigation" where 69 is "Not Bad"
C18_Witness ==
  /\ call = "getScoreDescription" /\ pc = "returned"
  /\ args.score = 70
  /\ returnValue = "Good Navigation"
  /\ getScoreDescription(69) = "Not Bad"

\* C19: calculateBasicScore returns a score from 0 to 100 for every pair of
\* route strings: 0 when an argument is empty or null, and no more than 100
\* when the user route repeats words of the correct route.
C19_BasicScoreWithinRange ==
  (call = "calculateBasicScore" /\ pc = "returned")
    => /\ 0 <= returnValue /\ returnValue <= 100
       /\ (Falsy(args.userRoute) \/ Falsy(args.correctRoute)) => returnValue = 0

\* the state useGame is mounted with
InitialHookState ==
  /\ gameState = "idle"
  /\ score = 0
  /\ userRoute = JSString(<<>>)
  /\ startPoint = JSNull
  /\ endPoint = JSNull
  /\ googleRoute = JSNull
  /\ error = JSNull
  /\ gameData = [startTime |-> JSNull, endTime |-> JSNull, attempts |-> 0]

\* C20: useGame starts with gameState 'idle', score 0, userRoute '', no
\* points, no googleRoute, no error and gameData {startTime: null, endTime:
\* null, attempts: 0}, and resetGame, after any sequence of the callbacks,
\* leaves every one of these fields at that value.
C20_ResetRestoresInitialState ==
  (call = "useGame" /\ pc \in {"mounted", "resetGame"}) => InitialHookState

\* resetGame has run, after time has passed since the mount
C20_Witness ==
  /\ call = "useGame"
  /\ pc = "resetGame"
  /\ now > 0
  /\ InitialHookState

\* a step of the hook in which the named callback runs: the clock stands
\* still and the callback is the one that ran last afterwards
Ran(callback) == call = "useGame" /\ pc' = callback /\ now' = now

\* C21: startNewRound, from whatever state it is invoked in, leaves
\* startPoint and endPoint as they were and sets userRoute '', googleRoute
\* null, score 0, error null, attempts 0, endTime null, startTime to the
\* time of the call and gameState 'mapLoaded'.
C21_NewRoundKeepsPointsResetsRest ==
  [][Ran("startNewRound")
       => /\ startPoint' = startPoint
          /\ endPoint' = endPoint
          /\ userRoute' = JSString(<<>>)
          /\ googleRoute' = JSNull
          /\ score' = 0
          /\ error' = JSNull
          /\ gameData' = [startTime |-> JSDate(now), endTime |-> JSNull, attempts |-> 0]
          /\ gameState' = "mapLoaded"]_vars

\* a new round started on a game that has its points, later than the mount
C21_Witness ==
  /\ call = "useGame"
  /\ pc = "startNewRound"
  /\ startPoint # JSNull /\ endPoint # JSNull
  /\ gameData.startTime = JSDate(now) /\ now > 0
  /\ gameState = "mapLoaded"

\* C24: submitRoute invoked while userRoute is empty or whitespace-only sets
\* error to 'Please enter a route description' and leaves gameState,
\* attempts, score, googleRoute and the points as they were; invoked with a
\* route that is not blank it moves the state to 'calculating' and increments
\* attempts by one.
C24_BlankSubmitOnlySetsError ==
  [][Ran("submitRoute")
       => IF \A i \in 1..Len(userRoute.value) : isSpace(userRoute.value[i])
          THEN /\ error' = JSString(<<"P","l","e","a","s","e"," ","e","n","t","e","r"," ","a"," ","r","o","u","t","e"," ","d","e","s","c","r","i","p","t","i","o","n">>)
               /\ gameState' = gameState
               /\ gameData' = gameData
               /\ score' = score
               /\ googleRoute' = googleRoute
               /\ startPoint' = startPoint /\ endPoint' = endPoint
          ELSE /\ gameState' = "calculating"
               /\ gameData'.attempts = gameData.attempts + 1]_vars

\* a whitespace-only route submitted in the input phase: the error is set and
\* the phase has not moved
C24_Witness ==
  /\ call = "useGame"
  /\ pc = "submitRoute"
  /\ userRoute = JSString(<<" "," "," ">>)
  /\ error = JSString(<<"P","l","e","a","s","e"," ","e","n","t","e","r"," ","a"," ","r","o","u","t","e"," ","d","e","s","c","r","i","p","t","i","o","n">>)
  /\ gameState = "routeInput"
  /\ gameData.attempts = 0

\* C25: in every state the callbacks of useGame reach, gameState 'results'
\* implies that gameData.endTime is set, that getGameStats().hasEnded is true
\* and that the duration no longer depends on the time at which it is read.
C25_ResultsHaveEndTime ==
  (call = "useGame" /\ gameState = "results")
    => /\ gameData.endTime # JSNull
       /\ getGameStats(now).hasEnded
       /\ \A later \in now..MaxTime : getGameDuration(later) = getGameDuration(now)

\* results reached half a second after the game started, and read later still
C25_Witness ==
  /\ call = "useGame"
  /\ gameState = "results"
  /\ gameData.startTime # JSNull
  /\ gameData.endTime # JSNull
  /\ getTime(gameData.endTime) - getTime(gameData.startTime) = 500
  /\ getGameDuration(now) = 0
  /\ now > gameData.endTime.value

\* the message is one of the feedback
inFeedback(message) == \E k \in 1..Len(result.feedback) : result.feedback[k] = message

\* C28: in the feedback of a scored call, the message for a text without
\* directions never comes without the message for a direction accuracy below
\* 50, because a user text without directions always has direction accuracy 0.
C28_NoDirectionsImpliesLowAccuracy ==
  Scored
    => /\ inFeedback(msgNoDirections) => inFeedback(msgDirectionAccuracy)
       /\ Len(userRouteNormalized.directions) = 0
            => /\ result.breakdown.directionAccuracy.n = 0
               /\ inFeedback(msgNoDirections)

\* a text that names a street of the reference but no direction, scored
\* against a reference that has steps
C28_Witness ==
  /\ Scored
  /\ Len(googleSteps) > 0
  /\ Len(userRouteNormalized.directions) = 0
  /\ Len(userRouteNormalized.streets) > 0
  /\ inFeedback(msgNoDirections)
  /\ inFeedback(msgDirectionAccuracy)

\* the reference has no alternative, or its first alternative has no leg, or
\* its first leg has an empty list of steps
yieldsNoSteps(reference) ==
  /\ reference.type = "object"
  /\ reference.routes.type = "array"
  /\ \/ Len(reference.routes.items) = 0
     \/ /\ reference.routes.items[1].legs.type = "array"
        /\ \/ Len(reference.routes.items[1].legs.items) = 0
           \/ /\ reference.routes.items[1].legs.items[1].steps.type = "array"
              /\ Len(reference.routes.items[1].legs.items[1].steps.items) = 0

\* C29: a non-empty user text scored against a reference that yields no steps
\* is scored in full: routeMatch and directionAccuracy are 0, landmarkMention
\* and completeness are those of the user text, the score is at most 30 and
\* the feedback has the routeMatch and the directionAccuracy messages.
C29_NoStepsStillScoresText ==
  (/\ call = "calculateScore"
   /\ pc # "call"
   /\ userRoute.type = "string" /\ Len(userRoute.value) > 0
   /\ yieldsNoSteps(googleRoute))
    => /\ pc = "returned"
       /\ googleSteps = <<>>
       /\ result.breakdown.routeMatch.n = 0
       /\ result.breakdown.directionAccuracy.n = 0
       /\ result.breakdown.landmarkMention = calculateLandmarkScore(normalizeRoute(userRoute.value))
       /\ result.breakdown.completeness
            = calculateCompletenessScore(normalizeRoute(userRoute.value), <<>>)
       /\ result.score = mathRound(Fraction(2 * result.breakdown.landmarkMention
                                              + result.breakdown.completeness, 10))
       /\ result.score <= 30
       /\ inFeedback(msgRouteMatch)
       /\ inFeedback(msgDirectionAccuracy)

\* a long text with directions, streets, a distance and three landmarks,
\* scored against a reference without alternatives: the score is 30
C29_Witness ==
  /\ call = "calculateScore"
  /\ pc = "returned"
  /\ userRoute.type = "string" /\ Len(userRoute.value) > 0
  /\ googleRoute.type = "object"
  /\ googleRoute.routes.type = "array"
  /\ Len(googleRoute.routes.items) = 0
  /\ result.breakdown.landmarkMention = 100
  /\ result.breakdown.completeness = 100
  /\ result.score = 30
  /\ result # zeroResult

\* C26: over every interleaving of initialize calls on the singleton, a
\* second call that starts before the first call's load has completed
\* included, a Loader is constructed and its load() started at most once, and
\* isLoaded is true only after a load has completed.
C26_LoaderCreatedOnce ==
  call = "MapsService"
    => /\ service.loadersCreated <= 1
       /\ service.loadsStarted <= 1
       /\ service.fields.isLoaded => service.loadsCompleted >= 1

\* a MapsService operation ran in this step
ServiceRan(operation) == call = "MapsService" /\ service' # service /\ service'.operation = operation

\* the step threw the message and left the four fields as they were
FailsUnchanged(message) ==
  /\ service'.outcome = thrown(message)
  /\ service'.fields.map = service.fields.map
  /\ service'.fields.directionsService = service.fields.directionsService
  /\ service'.fields.directionsRenderer = service.fields.directionsRenderer
  /\ service'.fields.isLoaded = service.fields.isLoaded

\* C27: addMarker before createMap throws 'Map not initialized';
\* initializeDirections, calculateRoute and displayRoute before initialize
\* has completed fail with 'Maps API not loaded'; clearRoute before the
\* directions are initialized does nothing; and in each of these cases map,
\* directionsService, directionsRenderer and isLoaded keep their values.
C27_OutOfOrderCallsFailUnchanged ==
  [][/\ (ServiceRan("addMarker") /\ service.fields.map = JSNull)
          => FailsUnchanged("Map not initialized")
     /\ \A operation \in {"initializeDirections", "calculateRoute", "displayRoute"} :
          (ServiceRan(operation) /\ ~service.fields.isLoaded)
            => FailsUnchanged("Maps API not loaded")
     /\ (ServiceRan("clearRoute") /\ service.fields.directionsRenderer = JSNull)
          => /\ service'.outcome = returned(JSUndefined)
             /\ service'.fields = service.fields]_vars

\* calculateRoute called while a load is still awaited: it failed, and the
\* service has neither directions nor the loaded flag
C27_Witness ==
  /\ call = "MapsService"
  /\ service.operation = "calculateRoute"
  /\ service.outcome = thrown("Maps API not loaded")
  /\ \E caller \in Callers : service.initialize[caller] = "loading"
  /\ service.fields.directionsService = JSNull
  /\ service.fields.directionsRenderer = JSNull
  /\ ~service.fields.isLoaded

\* C22: once the Game component is in the state 'results' it stays there,
\* with score, scoreResult and googleRoute as they are, until the user
\* invokes handleNewRound or handleResetGame: no render, effect or onMapReady
\* callback moves it to another state or initializes the game again.
C22_ResultsStayUntilUserLeaves ==
  [][(/\ component.mounted
      /\ gameState = "results"
      /\ component'.handler \notin {"handleNewRound", "handleResetGame"})
       => /\ gameState' = "results"
          /\ score' = score
          /\ component'.scoreResult = component.scoreResult
          /\ googleRoute' = googleRoute]_vars

\* the calculateScore of the submitted text and the route that came back
submittedScore == calculateScore(component.request.userRoute, googleRoute')

\* C23: a submission that handleRouteSubmit accepts increments attempts by
\* one and starts one directions request; when the request settles,
\* isCalculating is false and the state is 'results' with the score of
\* calculateScore for the submitted text and the route if it succeeded, and
\* 'error' if it failed; the state is never 'calculating' without a request
\* that has yet to settle.
C23_SubmissionEndsInResultsOrError ==
  [][component.mounted
       => /\ component'.handler = "handleRouteSubmit" /\ component' # component
            => /\ canSubmitRoute
               /\ gameData'.attempts = gameData.attempts + 1
               /\ gameState' = "calculating"
               /\ component'.isCalculating
               /\ component.request = JSNull /\ component'.request # JSNull
          /\ component.request # JSNull /\ component'.request = JSNull
            => /\ ~component'.isCalculating
               /\ \/ /\ component'.handler = "handleRouteSubmit.resolved"
                     /\ gameState' = "results"
                     /\ score' = submittedScore.score
                     /\ component'.scoreResult = submittedScore
                     /\ gameData'.endTime # JSNull
                  \/ /\ component'.handler = "handleRouteSubmit.rejected"
                     /\ gameState' = "error"
                     /\ error' = JSString(<<"F","a","i","l","e","d"," ","t","o"," ","c","a","l","c","u","l","a","t","e"," ","r","o","u","t","e","."," ","P","l","e","a","s","e"," ","t","r","y"," ","a","g","a","i","n",".">>)
          /\ gameState' = "calculating" => component'.request # JSNull]_vars

\* the request of an accepted submission has resolved: the round shows its
\* results, with a score above 0 and one attempt counted
C23_Witness ==
  /\ component.mounted
  /\ component.handler = "handleRouteSubmit.resolved"
  /\ gameState = "results"
  /\ ~component.isCalculating
  /\ component.scoreResult # JSNull
  /\ score = component.scoreResult.score
  /\ score > 0
  /\ gameData.attempts = 1

====
